---- MODULE Spec2Model ----
(***************************************************************************)
(* A model of the note.svg drawing core: the stroke sessions of            *)
(* StrokeRenderer (stroke.js), the document operations of DocumentEditor   *)
(* (document-editor.js) and the handlers that ui.js wires to them.         *)
(*                                                                         *)
(* Numbers.  Pointer coordinates are whole pixels.  The values the curve   *)
(* fitter computes are kept in thirds of a pixel (a control point of a     *)
(* straight cubic lies a third of the way along its chord), and the        *)
(* numbers written into a path's d attribute, which roundNumber formats    *)
(* with one decimal, are kept in tenths of a pixel.                        *)
(*                                                                         *)
(* Nodes.  A node is a record; a text child (a JavaScript string) is the   *)
(* record whose tagName is "#text".  The field id stands for the identity  *)
(* of the JavaScript object, and shape for renderAttributes.shape.         *)
(***************************************************************************)
EXTENDS Integers, Sequences, FiniteSets, TLC

VARIABLES
    doc,            \* the document root (noteDocument = renderer.svg = documentEditor.document)
    liveStrokes,    \* StrokeRenderer.liveStrokes: pointer id -> {tool, stroke}
    tool,           \* StrokeRenderer.tool: the tool selected in the toolbar
    fitCurveLoaded, \* whether window.fitCurve is there to call
    nextId,         \* the identity the next created node object gets
    ev,             \* the handler that ran last: its name, pointer id, the tool type of the
                    \* session it found, and the position of a pointerdown
    removed,        \* what the last processEraserStroke / clearPaths call returned
    err,            \* the exception the last handler raised, or "none"
    doc0,           \* the document as it was at start-up
    phase,          \* position of each pointer in the gesture a specification scripts
    call,           \* the last direct call of a DocumentEditor method, with its arguments
    pre,            \* the document as it was before that call, or before the last load
    load,           \* the last attempt to load a document: where from, the text, whether
                    \* txml.parse was called, and the message shown to the user
    gen,            \* the last direct call of createPathFromStroke: the stroke, whether
                    \* window.fitCurve threw, and the curves it returned
    size            \* noteDocument.noteSvgAttributes: the width and height of the root

vars == <<doc, liveStrokes, tool, fitCurveLoaded, nextId, ev, removed, err, doc0, phase,
          call, pre, load, gen, size>>

(***************************************************************************)
(* Bounds of the model.                                                    *)
(***************************************************************************)
MaxStroke == 3
MaxNewPaths == 1

\* Pointer identifiers (PointerEvent.pointerId).
Ids == {1, 2}

\* The canvas positions pointer events arrive at, in pixels.
Points == {<<3, 0>>, <<3, 6>>}

(***************************************************************************)
(* Sequences.                                                              *)
(***************************************************************************)
RECURSIVE Flatten(_)
Flatten(ss) == IF ss = <<>> THEN <<>> ELSE Head(ss) \o Flatten(Tail(ss))

Range(s) == {s[i] : i \in DOMAIN s}

(***************************************************************************)
(* Strings that are read as numbers (the size typed into the resize        *)
(* prompt, the width and height attributes of an svg start tag) are        *)
(* sequences of characters.  An attribute that is not there, undefined, is *)
(* the empty sequence: parseInt gives NaN for both.  A character is a      *)
(* string of one character; a character that cannot be written in a string *)
(* here is the string that names its code point.                           *)
(***************************************************************************)
Digits == <<"0", "1", "2", "3", "4", "5", "6", "7", "8", "9">>

IsDigit(ch) == ch \in Range(Digits)

DigitValue(ch) == (CHOOSE i \in DOMAIN Digits : Digits[i] = ch) - 1

\* The letters of the hexadecimal digits ten to fifteen.
HexLetters == <<"a", "b", "c", "d", "e", "f">>

UpperHexLetters == <<"A", "B", "C", "D", "E", "F">>

IsHexDigit(ch) ==
    IsDigit(ch) \/ ch \in Range(HexLetters) \/ ch \in Range(UpperHexLetters)

HexDigitValue(ch) ==
    IF IsDigit(ch) THEN DigitValue(ch)
    ELSE IF ch \in Range(HexLetters)
    THEN 9 + (CHOOSE i \in DOMAIN HexLetters : HexLetters[i] = ch)
    ELSE 9 + (CHOOSE i \in DOMAIN UpperHexLetters : UpperHexLetters[i] = ch)

\* The white space and line terminators that trim and parseInt strip: tab,
\* line feed, carriage return, form feed, space, line tabulation, no-break
\* space, the byte order mark, the line and paragraph separators and the
\* other space separators.
WhiteSpace ==
    {" ", "\t", "\n", "\r", "\f", "U+000B", "U+00A0", "U+FEFF", "U+2028", "U+2029",
     "U+1680", "U+2000", "U+2001", "U+2002", "U+2003", "U+2004", "U+2005", "U+2006",
     "U+2007", "U+2008", "U+2009", "U+200A", "U+202F", "U+205F", "U+3000"}

RECURSIVE TrimLeft(_)
\* str.trimStart()
TrimLeft(str) ==
    IF str # <<>> /\ Head(str) \in WhiteSpace THEN TrimLeft(Tail(str)) ELSE str

RECURSIVE TrimRight(_)
\* str.trimEnd()
TrimRight(str) ==
    IF str # <<>> /\ str[Len(str)] \in WhiteSpace
    THEN TrimRight(SubSeq(str, 1, Len(str) - 1))
    ELSE str

\* str.trim()
TrimString(str) == TrimRight(TrimLeft(str))

RECURSIVE LeadingDigits(_)
\* The digits a string begins with.
LeadingDigits(str) ==
    IF str # <<>> /\ IsDigit(Head(str)) THEN <<Head(str)>> \o LeadingDigits(Tail(str))
    ELSE <<>>

RECURSIVE DecimalValue(_)
DecimalValue(digits) ==
    IF digits = <<>> THEN 0
    ELSE 10 * DecimalValue(SubSeq(digits, 1, Len(digits) - 1)) + DigitValue(digits[Len(digits)])

RECURSIVE LeadingHexDigits(_)
\* The hexadecimal digits a string begins with.
LeadingHexDigits(str) ==
    IF str # <<>> /\ IsHexDigit(Head(str))
    THEN <<Head(str)>> \o LeadingHexDigits(Tail(str))
    ELSE <<>>

RECURSIVE HexValue(_)
HexValue(digits) ==
    IF digits = <<>> THEN 0
    ELSE 16 * HexValue(SubSeq(digits, 1, Len(digits) - 1)) + HexDigitValue(digits[Len(digits)])

\* A JavaScript number that parseInt returns: NaN, or an integer.
NaN == [nan |-> TRUE, value |-> 0]

Number(n) == [nan |-> FALSE, value |-> n]

isNaN(num) == num.nan

\* parseInt(str) with no radix: white space is skipped, then a sign is read;
\* after a prefix 0x or 0X the hexadecimal digits are read, otherwise the
\* decimal digits, up to the first character that is none; NaN when there
\* is no digit.
parseInt(str) ==
    LET t == TrimLeft(str)
        signed == t # <<>> /\ Head(t) \in {"-", "+"}
        rest == IF signed THEN Tail(t) ELSE t
        hex == Len(rest) >= 2 /\ rest[1] = "0" /\ rest[2] \in {"x", "X"}
        digits == IF hex THEN LeadingHexDigits(SubSeq(rest, 3, Len(rest)))
                  ELSE LeadingDigits(rest)
        value == IF hex THEN HexValue(digits) ELSE DecimalValue(digits)
    IN IF digits = <<>> THEN NaN
       ELSE IF signed /\ Head(t) = "-" THEN Number(0 - value)
       ELSE Number(value)

RECURSIVE Split(_, _)
\* str.split(separator)
Split(str, separator) ==
    IF \A i \in DOMAIN str : str[i] # separator THEN <<str>>
    ELSE LET k == CHOOSE i \in DOMAIN str :
                      str[i] = separator /\ \A j \in 1..(i - 1) : str[j] # separator
         IN <<SubSeq(str, 1, k - 1)>> \o Split(SubSeq(str, k + 1, Len(str)), separator)

\* What parseSizeString returns for a string it does not accept.
null == [ok |-> FALSE, width |-> 0, height |-> 0]

\* parseSizeString(sizeStr)
parseSizeString(sizeStr) ==
    LET dims == Split(sizeStr, "x")
        width == parseInt(TrimString(dims[1]))
        height == parseInt(IF Len(dims) >= 2 THEN TrimString(dims[2]) ELSE <<>>)
    IN IF ~isNaN(width) /\ ~isNaN(height)
       THEN [ok |-> TRUE, width |-> width.value, height |-> height.value]
       ELSE null

(***************************************************************************)
(* Tools (stroke.js DEFAULT_TOOL, ui.js setupDrawingTools).  The pen's     *)
(* tolerance field is read nowhere and is left out.                        *)
(***************************************************************************)
PenTool == [type |-> "pen", color |-> "#000", diameter |-> 2]
EraserTool == [type |-> "eraser", color |-> "", diameter |-> 10]
DEFAULT_TOOL == PenTool

(***************************************************************************)
(* Nodes.                                                                  *)
(***************************************************************************)
NoShape == [cached |-> FALSE, segs |-> <<>>]

Node(i, tag, kids) ==
    [id |-> i, tagName |-> tag, d |-> <<>>, stroke |-> "", strokeWidth |-> 0,
     children |-> kids, shape |-> NoShape]

Text(i) == Node(i, "#text", <<>>)

IsString(n) == n.tagName = "#text"

\* A path command: M x y, L x y, or C x1 y1, x2 y2, x y (numbers in tenths).
Cmd(op, args) == [op |-> op, args |-> args]

PathNode(i, d, color, width) ==
    [id |-> i, tagName |-> "path", d |-> d, stroke |-> color, strokeWidth |-> width,
     children |-> <<>>, shape |-> NoShape]

(***************************************************************************)
(* Numbers and path data (utils.js roundNumber, document-editor.js         *)
(* generatePathData).                                                      *)
(***************************************************************************)
\* A whole-pixel coordinate as a count of thirds of a pixel.
Thirds(x) == 3 * x

\* num.toFixed(1): a value given in thirds of a pixel, rounded to the nearest
\* tenth and returned as a count of tenths.
roundNumber(num) == (20 * num + 3) \div 6

\* `${x}` of a whole-pixel coordinate (the catch branch does not round),
\* as a count of tenths.
RawNumber(x) == 10 * x

\* The fitter drops a point equal to the one before it.
RECURSIVE Dedupe(_)
Dedupe(points) ==
    IF Len(points) < 2 THEN points
    ELSE LET rest == Dedupe(Tail(points))
         IN IF Head(points) = Head(rest) THEN rest ELSE <<Head(points)>> \o rest

\* The straight cubic from a to b: [a, a + (b-a)/3, b + (a-b)/3, b], in thirds.
LineCurve(a, b) ==
    << <<3 * a[1], 3 * a[2]>>,
       <<2 * a[1] + b[1], 2 * a[2] + b[2]>>,
       <<a[1] + 2 * b[1], a[2] + 2 * b[2]>>,
       <<3 * b[1], 3 * b[2]>> >>

\* window.fitCurve(points, maxError): the curve fitter is a library that is not
\* part of the sources.  It returns no curve for fewer than two distinct
\* consecutive points, and otherwise curves that run from the first point to
\* the last without gaps; here one straight cubic per pair of neighbours.
fitCurve(points, maxError) ==
    LET pts == Dedupe(points)
    IN IF Len(pts) < 2 THEN <<>>
       ELSE [i \in 1..(Len(pts) - 1) |-> LineCurve(pts[i], pts[i + 1])]

\* The error tolerance generatePathData passes to the fitter (2.0).
FIT_MAX_ERROR == 2

RoundPx(x) == roundNumber(Thirds(x))

\* Variant: the fallback joins the first point and the last.
Polyline_Ends(stroke, rounded) ==
    LET fmt(x) == IF rounded THEN RoundPx(x) ELSE RawNumber(x)
    IN <<Cmd("M", <<fmt(stroke[1][1]), fmt(stroke[1][2])>>),
         Cmd("L", <<fmt(stroke[Len(stroke)][1]), fmt(stroke[Len(stroke)][2])>>)>>

\* The M ... L ... fallbacks of generatePathData: numbers rounded in the
\* branch where the fitter returned no curve, unrounded in the catch branch.
Polyline(stroke, rounded) ==
    LET fmt(x) == IF rounded THEN RoundPx(x) ELSE RawNumber(x)
    IN <<Cmd("M", <<fmt(stroke[1][1]), fmt(stroke[1][2])>>)>> \o
       [i \in 1..(Len(stroke) - 1) |->
           Cmd("L", <<fmt(stroke[i + 1][1]), fmt(stroke[i + 1][2])>>)]

\* Variant: a move-to before every curve.
CurvePath_MovePerCurve(bezierCurves) ==
    Flatten([i \in 1..Len(bezierCurves) |->
        <<Cmd("M", <<roundNumber(bezierCurves[i][1][1]), roundNumber(bezierCurves[i][1][2])>>),
          Cmd("C", <<roundNumber(bezierCurves[i][2][1]), roundNumber(bezierCurves[i][2][2]),
                     roundNumber(bezierCurves[i][3][1]), roundNumber(bezierCurves[i][3][2]),
                     roundNumber(bezierCurves[i][4][1]), roundNumber(bezierCurves[i][4][2])>>)>>])

\* The M ... C ... branch of generatePathData.
CurvePath(bezierCurves) ==
    <<Cmd("M", <<roundNumber(bezierCurves[1][1][1]), roundNumber(bezierCurves[1][1][2])>>)>> \o
    [i \in 1..Len(bezierCurves) |->
        Cmd("C", <<roundNumber(bezierCurves[i][2][1]), roundNumber(bezierCurves[i][2][2]),
                   roundNumber(bezierCurves[i][3][1]), roundNumber(bezierCurves[i][3][2]),
                   roundNumber(bezierCurves[i][4][1]), roundNumber(bezierCurves[i][4][2])>>)]

\* Variant: the point the gesture ended at is left out.
generatePathData_DropsLast(stroke, loaded) ==
    LET points == SubSeq(stroke, 1, Len(stroke) - 1)
    IN IF Len(points) < 2 THEN <<>>
       ELSE IF ~loaded THEN Polyline(points, FALSE)
       ELSE LET bezierCurves == fitCurve(points, FIT_MAX_ERROR)
            IN IF Len(bezierCurves) > 0 THEN CurvePath(bezierCurves)
               ELSE Polyline(points, TRUE)

\* generatePathData(stroke); loaded is whether the call of window.fitCurve
\* succeeds (when it throws, the catch branch writes the unrounded polyline).
generatePathData(stroke, loaded) ==
    IF Len(stroke) < 2 THEN <<>>
    ELSE IF ~loaded THEN Polyline(stroke, FALSE)
    ELSE LET bezierCurves == fitCurve(stroke, FIT_MAX_ERROR)
         IN IF Len(bezierCurves) > 0 THEN CurvePath(bezierCurves)
            ELSE Polyline(stroke, TRUE)

\* createPathFromStroke(stroke, tool): a new path node object.
createPathFromStroke(stroke, t, loaded, newId) ==
    PathNode(newId, generatePathData(stroke, loaded), t.color, t.diameter)

\* Variant: the new path replaces the children instead of joining them.
addPathToDocument_Replace(document, pathNode) ==
    [document EXCEPT !.children = <<pathNode>>]

\* Variant: the new path becomes the first child (unshift for push).
addPathToDocument_Prepend(document, pathNode) ==
    [document EXCEPT !.children = <<pathNode>> \o @]

\* addPathToDocument(pathNode): document.children.push(pathNode).
addPathToDocument(document, pathNode) ==
    [document EXCEPT !.children = Append(@, pathNode)]

\* finalizePenStroke(stroke, tool).
finalizePenStroke(document, stroke, t, loaded, newId) ==
    addPathToDocument(document, createPathFromStroke(stroke, t, loaded, newId))

(***************************************************************************)
(* Geometry (the kld-intersections library: ShapeInfo.path, ShapeInfo.line *)
(* and Intersection.intersect), in tenths of a pixel.  The library is not  *)
(* part of the sources.  A cubic is tested by its chord: the cubics of     *)
(* this model are straight.                                                *)
(***************************************************************************)
Seg(a, b) == [a |-> a, b |-> b]

\* ShapeInfo.line(start, end) of two pixel points.
ShapeLine(start, end) ==
    Seg(<<10 * start[1], 10 * start[2]>>, <<10 * end[1], 10 * end[2]>>)

EndPoint(c) == <<c.args[Len(c.args) - 1], c.args[Len(c.args)]>>

\* ShapeInfo.path(d): the segments of the path, each from the end point of
\* the command before it to its own end point.
ShapePath(d) ==
    IF Len(d) < 2 THEN <<>>
    ELSE [i \in 1..(Len(d) - 1) |-> Seg(EndPoint(d[i]), EndPoint(d[i + 1]))]

Cross(o, a, b) == (a[1] - o[1]) * (b[2] - o[2]) - (a[2] - o[2]) * (b[1] - o[1])

Sign(x) == IF x > 0 THEN 1 ELSE IF x < 0 THEN -1 ELSE 0

Between(x, u, v) == (u <= x /\ x <= v) \/ (v <= x /\ x <= u)

\* The two segments have a point in common.
SegmentsIntersect(s, t) ==
    LET d1 == Cross(s.a, s.b, t.a)
        d2 == Cross(s.a, s.b, t.b)
        d3 == Cross(t.a, t.b, s.a)
        d4 == Cross(t.a, t.b, s.b)
        Within(u, v, c) == Between(c[1], u[1], v[1]) /\ Between(c[2], u[2], v[2])
    IN \/ Sign(d1) # Sign(d2) /\ Sign(d3) # Sign(d4)
       \/ d1 = 0 /\ Within(s.a, s.b, t.a)
       \/ d2 = 0 /\ Within(s.a, s.b, t.b)
       \/ d3 = 0 /\ Within(t.a, t.b, s.a)
       \/ d4 = 0 /\ Within(t.a, t.b, s.b)

\* Intersection.intersect(shape, line).status === "Intersection".
Intersects(segs, line) ==
    \E i \in DOMAIN segs : SegmentsIntersect(segs[i], line)

(***************************************************************************)
(* The document operations of DocumentEditor.  An operation that mutates   *)
(* its node in place and returns the removed array is an operator that     *)
(* returns both: [node |-> the node afterwards, removed |-> the array].    *)
(***************************************************************************)
\* Variant: the cache is filled with the geometry of an empty command string.
CacheShape_Stale(child) ==
    IF child.shape.cached THEN child
    ELSE [child EXCEPT !.shape = [cached |-> TRUE, segs |-> <<>>]]

\* child.renderAttributes.shape ||= ShapeInfo.path(child.attributes.d)
CacheShape(child) ==
    IF child.shape.cached THEN child
    ELSE [child EXCEPT !.shape = [cached |-> TRUE, segs |-> ShapePath(child.d)]]

\* childIntersects: only a path is hit-tested, by its own cached geometry.
ChildIntersects(child, shape) ==
    child.tagName = "path" /\ Intersects(CacheShape(child).shape.segs, shape)

\* Variant: the test of the filter callback inverted.
Keeps_Inverted(keepIntersecting, childIntersects) == keepIntersecting \/ childIntersects

\* return keepIntersecting || !childIntersects
Keeps(keepIntersecting, childIntersects) == keepIntersecting \/ ~childIntersects

RECURSIVE filterIntersecting(_, _, _, _, _)
RECURSIVE FilterChildren(_, _, _, _, _)

\* The callback of node.children.filter(...), run over the children in order.
\* Each child is hit-tested if it is a path, pushed to removed if it tested
\* positive, filtered itself (with an array of its own) if recurse is set,
\* and kept if keepIntersecting is set or it did not test positive.
FilterChildren(shape, children, removedIn, keepIntersecting, recurse) ==
    IF children = <<>> THEN [kept |-> <<>>, removed |-> removedIn]
    ELSE LET child == Head(children)
         IN IF IsString(child)
            THEN LET rest == FilterChildren(shape, Tail(children), removedIn,
                                            keepIntersecting, recurse)
                 IN [kept |-> <<child>> \o rest.kept, removed |-> rest.removed]
            ELSE LET tested == IF child.tagName = "path" THEN CacheShape(child) ELSE child
                     childIntersects == ChildIntersects(child, shape)
                     after == IF recurse
                              THEN filterIntersecting(shape, tested, <<>>,
                                                      keepIntersecting, recurse).node
                              ELSE tested
                     pushed == IF childIntersects THEN Append(removedIn, after)
                               ELSE removedIn
                     rest == FilterChildren(shape, Tail(children), pushed,
                                            keepIntersecting, recurse)
                 IN [kept |-> (IF Keeps(keepIntersecting, childIntersects)
                               THEN <<after>> ELSE <<>>) \o rest.kept,
                     removed |-> rest.removed]

\* Variant: only the children of the node itself are filtered.
filterIntersecting_Shallow(shape, node, removedIn, keepIntersecting, recurse) ==
    IF IsString(node) THEN [node |-> node, removed |-> removedIn]
    ELSE LET r == FilterChildren(shape, node.children, removedIn,
                                 keepIntersecting, FALSE)
         IN [node |-> [node EXCEPT !.children = r.kept], removed |-> r.removed]

\* filterIntersecting(shape, node, removed, keepIntersecting, recurse)
filterIntersecting(shape, node, removedIn, keepIntersecting, recurse) ==
    IF IsString(node) THEN [node |-> node, removed |-> removedIn]
    ELSE LET r == FilterChildren(shape, node.children, removedIn,
                                 keepIntersecting, recurse)
         IN [node |-> [node EXCEPT !.children = r.kept], removed |-> r.removed]

\* Variant: the filtered children are not assigned back to the document.
processEraserStroke_KeepsTree(document, start, end) ==
    [node |-> document,
     removed |-> filterIntersecting(ShapeLine(start, end), document, <<>>, FALSE, TRUE).removed]

\* processEraserStroke(start, end): the defaults keepIntersecting = false and
\* recurse = true.
processEraserStroke(document, start, end) ==
    filterIntersecting(ShapeLine(start, end), document, <<>>, FALSE, TRUE)

RECURSIVE clearPaths(_, _, _)
RECURSIVE ClearChildren(_, _, _)

\* Variant: a path is put at the front of removed (unshift for push).
ClearChildren_Prepends(children, removedIn, recurse) ==
    IF children = <<>> THEN [kept |-> <<>>, removed |-> removedIn]
    ELSE LET child == Head(children)
         IN IF IsString(child)
            THEN LET rest == ClearChildren(Tail(children), removedIn, recurse)
                 IN [kept |-> <<child>> \o rest.kept, removed |-> rest.removed]
            ELSE IF child.tagName = "path"
            THEN LET rest == ClearChildren(Tail(children), <<child>> \o removedIn, recurse)
                 IN [kept |-> rest.kept, removed |-> rest.removed]
            ELSE LET sub == IF recurse THEN clearPaths(child, removedIn, recurse)
                            ELSE [node |-> child, removed |-> removedIn]
                     rest == ClearChildren(Tail(children), sub.removed, recurse)
                 IN [kept |-> <<sub.node>> \o rest.kept, removed |-> rest.removed]

\* The callback of node.children.filter(...) in clearPaths.
ClearChildren(children, removedIn, recurse) ==
    IF children = <<>> THEN [kept |-> <<>>, removed |-> removedIn]
    ELSE LET child == Head(children)
         IN IF IsString(child)
            THEN LET rest == ClearChildren(Tail(children), removedIn, recurse)
                 IN [kept |-> <<child>> \o rest.kept, removed |-> rest.removed]
            ELSE IF child.tagName = "path"
            THEN LET rest == ClearChildren(Tail(children), Append(removedIn, child), recurse)
                 IN [kept |-> rest.kept, removed |-> rest.removed]
            ELSE LET sub == IF recurse THEN clearPaths(child, removedIn, recurse)
                            ELSE [node |-> child, removed |-> removedIn]
                     rest == ClearChildren(Tail(children), sub.removed, recurse)
                 IN [kept |-> <<sub.node>> \o rest.kept, removed |-> rest.removed]

\* Variant: only the children of the node itself are cleared.
clearPaths_Shallow(node, removedIn, recurse) ==
    IF IsString(node) THEN [node |-> node, removed |-> removedIn]
    ELSE LET r == ClearChildren(node.children, removedIn, FALSE)
         IN [node |-> [node EXCEPT !.children = r.kept], removed |-> r.removed]

\* Variant: the filtered children are not assigned back to the node.
clearPaths_KeepsChildren(node, removedIn, recurse) ==
    IF IsString(node) THEN [node |-> node, removed |-> removedIn]
    ELSE LET r == ClearChildren(node.children, removedIn, recurse)
         IN [node |-> node, removed |-> r.removed]

\* clearPaths(node, removed, recurse).  Every node of the model has a
\* children array, so the !node.children branch is not taken.
clearPaths(node, removedIn, recurse) ==
    IF IsString(node) THEN [node |-> node, removed |-> removedIn]
    ELSE LET r == ClearChildren(node.children, removedIn, recurse)
         IN [node |-> [node EXCEPT !.children = r.kept], removed |-> r.removed]

(***************************************************************************)
(* Documents the application starts from (main.js): the default document,  *)
(* or a document read back from local storage, which may hold groups,      *)
(* text and nested paths since any <svg>...</svg> text is accepted.        *)
(***************************************************************************)
\* createDefaultDocument()
createDefaultDocument ==
    Node(1, "svg", <<Node(2, "metadata", <<Node(3, "notesvg", <<>>)>>)>>)

LoadedPath(i, x1, y1, x2, y2) ==
    PathNode(i, <<Cmd("M", <<10 * x1, 10 * y1>>), Cmd("L", <<10 * x2, 10 * y2>>)>>,
             "#000000", 2)

\* deserializeDocument(svgString) of a stored document: a path under the
\* root, paths inside a group and inside a group of that group, and text.
LoadedDocument ==
    Node(1, "svg",
         <<Node(2, "metadata", <<>>),
           LoadedPath(3, 0, 3, 6, 3),
           Text(4),
           Node(5, "g",
                <<LoadedPath(6, 0, 6, 6, 6),
                  Node(7, "g", <<LoadedPath(8, 0, 2, 6, 2)>>),
                  LoadedPath(9, 9, 9, 12, 9)>>)>>)

\* The width and height of the default document, and of the stored one.
DefaultSize == [width |-> 360, height |-> 360]

LoadedSize == [width |-> 500, height |-> 300]

\* loadFromLocalStorage(deserializeDocument, createDefaultDocument)
InitDocs == {createDefaultDocument, LoadedDocument}

(***************************************************************************)
(* Measures of a tree.                                                     *)
(***************************************************************************)
RECURSIVE Nodes(_)
\* Every node of the tree, in pre-order.
Nodes(n) == <<n>> \o Flatten([i \in DOMAIN n.children |-> Nodes(n.children[i])])

NodeIds(n) == {x.id : x \in Range(Nodes(n))}

PathIds(n) == {x.id : x \in {y \in Range(Nodes(n)) : y.tagName = "path"}}

SetMax(S) == CHOOSE x \in S : \A y \in S : y <= x

\* The number of path nodes created since start-up.
Created == nextId - (SetMax(NodeIds(doc0)) + 1)

(***************************************************************************)
(* The handlers of StrokeRenderer (stroke.js) and of the toolbar (ui.js).  *)
(* Drawing on the canvases is left out.                                    *)
(***************************************************************************)
Active(live, id) == id \in DOMAIN live

\* The tool type a handler finds for the pointer: "idle" if it has no session.
Kind(id) == IF Active(liveStrokes, id) THEN liveStrokes[id].tool.type ELSE "idle"

\* The position recorded for a handler that is not a pointerdown.
NoPoint == <<0, 0>>

Event(op, id) == [op |-> op, id |-> id, kind |-> Kind(id), point |-> NoPoint]

\* A pointerdown at position p.
EventAt(op, id, p) == [Event(op, id) EXCEPT !.point = p]

\* Variant: one session slot shared by every pointer.
Put_Single(live, id, session) == [k \in {id} |-> session]

Put(live, id, session) ==
    [k \in DOMAIN live \cup {id} |-> IF k = id THEN session ELSE live[k]]

\* Variant: the entry is not deleted.
Delete_Nothing(live, id) == live

\* Variant: every entry is deleted (this.liveStrokes = {}).
Delete_All(live, id) == <<>>

Delete(live, id) == [k \in DOMAIN live \ {id} |-> live[k]]

\* What a handler returns to the action that runs it: the session map and the
\* document afterwards, and the array processEraserStroke returned.
Outcome(live, document, removedOut) ==
    [live |-> live, doc |-> document, removed |-> removedOut]

\* Variant: the point is pushed before the eraser segment is taken, so the
\* segment starts at the new point.
MoveSession_AppendFirst(live, document, id, p) ==
    LET stroke == Append(live[id].stroke, p)
        latestStart == stroke[Len(stroke)]
        r == IF live[id].tool.type = "eraser"
             THEN processEraserStroke(document, latestStart, p)
             ELSE [node |-> document, removed |-> <<>>]
    IN Outcome([live EXCEPT ![id].stroke = stroke], r.node, r.removed)

\* Variant: the point is put in front of the stroke (unshift).
MoveSession_Prepend(live, document, id, p) ==
    LET stroke == live[id].stroke
        latestStart == stroke[Len(stroke)]
        r == IF live[id].tool.type = "eraser"
             THEN processEraserStroke(document, latestStart, p)
             ELSE [node |-> document, removed |-> <<>>]
    IN Outcome([live EXCEPT ![id].stroke = <<p>> \o stroke], r.node, r.removed)

\* Variant: the point is not pushed to the stroke.
MoveSession_NoPush(live, document, id, p) ==
    LET stroke == live[id].stroke
        latestStart == stroke[Len(stroke)]
        r == IF live[id].tool.type = "eraser"
             THEN processEraserStroke(document, latestStart, p)
             ELSE [node |-> document, removed |-> <<>>]
    IN Outcome(live, r.node, r.removed)

\* Variant: an extend of an eraser session also cuts the strokes of the other
\* sessions back to their first point.
MoveSession_CutsStrokes(live, document, id, p) ==
    LET stroke == live[id].stroke
        latestStart == stroke[Len(stroke)]
        r == IF live[id].tool.type = "eraser"
             THEN processEraserStroke(document, latestStart, p)
             ELSE [node |-> document, removed |-> <<>>]
        cut == [k \in DOMAIN live |->
                   IF k # id /\ live[id].tool.type = "eraser"
                   THEN [live[k] EXCEPT !.stroke = <<@[1]>>]
                   ELSE live[k]]
    IN Outcome([cut EXCEPT ![id].stroke = Append(stroke, p)], r.node, r.removed)

\* moveStroke when liveStrokes[id] holds a session: an eraser session erases
\* along the segment from the last point of the stroke to the new point, and
\* then the point is pushed to the stroke.
MoveSession(live, document, id, p) ==
    LET stroke == live[id].stroke
        latestStart == stroke[Len(stroke)]
        r == IF live[id].tool.type = "eraser"
             THEN processEraserStroke(document, latestStart, p)
             ELSE [node |-> document, removed |-> <<>>]
    IN Outcome([live EXCEPT ![id].stroke = Append(stroke, p)], r.node, r.removed)

\* Variant: a move for a pointer without a session starts one.
moveStroke_StartsSession(live, document, id, p) ==
    IF ~Active(live, id)
    THEN Outcome(Put(live, id, [tool |-> DEFAULT_TOOL, stroke |-> <<p>>]), document, <<>>)
    ELSE MoveSession(live, document, id, p)

\* moveStroke(id, event) as a function of the state it reads; it returns at
\* once when liveStrokes[id] holds no stroke.
moveStroke(live, document, id, p) ==
    IF ~Active(live, id) THEN Outcome(live, document, <<>>)
    ELSE MoveSession(live, document, id, p)

\* Variant: a pointerdown for a pointer that has a session adds its point to
\* that session's stroke.
BeginStroke_Continues(id, p) ==
    /\ liveStrokes' = IF Active(liveStrokes, id)
                      THEN [liveStrokes EXCEPT ![id].stroke = Append(@, p)]
                      ELSE Put(liveStrokes, id, [tool |-> tool, stroke |-> <<p>>])
    /\ ev' = EventAt("begin", id, p)
    /\ removed' = <<>>
    /\ err' = "none"
    /\ UNCHANGED <<doc, tool, fitCurveLoaded, nextId, doc0, load, gen, size, call, pre>>

\* beginStroke(id, event)
BeginStroke(id, p) ==
    /\ liveStrokes' = Put(liveStrokes, id, [tool |-> tool, stroke |-> <<p>>])
    /\ ev' = EventAt("begin", id, p)
    /\ removed' = <<>>
    /\ err' = "none"
    /\ UNCHANGED <<doc, tool, fitCurveLoaded, nextId, doc0, load, gen, size, call, pre>>

\* moveStroke(id, event)
MoveStroke(id, p) ==
    LET r == moveStroke(liveStrokes, doc, id, p)
    IN /\ liveStrokes' = r.live
       /\ doc' = r.doc
       /\ removed' = r.removed
       /\ ev' = Event("move", id)
       /\ err' = "none"
       /\ UNCHANGED <<tool, fitCurveLoaded, nextId, doc0, load, gen, size, call, pre>>

\* Variant: the end of a gesture goes by the tool selected in the toolbar at
\* that moment, not by the tool of the session.
EndStroke_SelectedTool(id, p) ==
    LET r == moveStroke(liveStrokes, doc, id, p)
    IN /\ removed' = r.removed
       /\ ev' = Event("end", id)
       /\ UNCHANGED <<tool, fitCurveLoaded, doc0, load, gen, size, call, pre>>
       /\ IF ~Active(r.live, id)
          THEN /\ err' = "TypeError"
               /\ liveStrokes' = r.live
               /\ doc' = r.doc
               /\ nextId' = nextId
          ELSE LET session == r.live[id]
                   pen == tool.type = "pen" /\ Len(session.stroke) >= 2
               IN /\ err' = "none"
                  /\ doc' = IF pen
                            THEN finalizePenStroke(r.doc, session.stroke, tool,
                                                   fitCurveLoaded, nextId)
                            ELSE r.doc
                  /\ nextId' = IF pen THEN nextId + 1 ELSE nextId
                  /\ liveStrokes' = Delete(r.live, id)

\* Variant: the end of a gesture finalizes the stroke of any tool.
EndStroke_AnyTool(id, p) ==
    LET r == moveStroke(liveStrokes, doc, id, p)
    IN /\ removed' = r.removed
       /\ ev' = Event("end", id)
       /\ UNCHANGED <<tool, fitCurveLoaded, doc0, load, gen, size, call, pre>>
       /\ IF ~Active(r.live, id)
          THEN /\ err' = "TypeError"
               /\ liveStrokes' = r.live
               /\ doc' = r.doc
               /\ nextId' = nextId
          ELSE LET session == r.live[id]
                   pen == Len(session.stroke) >= 2
               IN /\ err' = "none"
                  /\ doc' = IF pen
                            THEN finalizePenStroke(r.doc, session.stroke, session.tool,
                                                   fitCurveLoaded, nextId)
                            ELSE r.doc
                  /\ nextId' = IF pen THEN nextId + 1 ELSE nextId
                  /\ liveStrokes' = Delete(r.live, id)

\* endStroke(id, event): the final moveStroke, then the destructuring of
\* liveStrokes[id], which throws a TypeError when there is no session.
EndStroke(id, p) ==
    LET r == moveStroke(liveStrokes, doc, id, p)
    IN /\ removed' = r.removed
       /\ ev' = Event("end", id)
       /\ UNCHANGED <<tool, fitCurveLoaded, doc0, load, gen, size, call, pre>>
       /\ IF ~Active(r.live, id)
          THEN /\ err' = "TypeError"
               /\ liveStrokes' = r.live
               /\ doc' = r.doc
               /\ nextId' = nextId
          ELSE LET session == r.live[id]
                   pen == session.tool.type = "pen" /\ Len(session.stroke) >= 2
               IN /\ err' = "none"
                  /\ doc' = IF pen
                            THEN finalizePenStroke(r.doc, session.stroke, session.tool,
                                                   fitCurveLoaded, nextId)
                            ELSE r.doc
                  /\ nextId' = IF pen THEN nextId + 1 ELSE nextId
                  /\ liveStrokes' = Delete(r.live, id)

\* pencilButton click
SelectPen ==
    /\ tool' = PenTool
    /\ ev' = Event("selectPen", 0)
    /\ removed' = <<>>
    /\ err' = "none"
    /\ UNCHANGED <<doc, liveStrokes, fitCurveLoaded, nextId, doc0, load, gen,
                   size, phase, call, pre>>

\* eraserButton click
SelectEraser ==
    /\ tool' = EraserTool
    /\ ev' = Event("selectEraser", 0)
    /\ removed' = <<>>
    /\ err' = "none"
    /\ UNCHANGED <<doc, liveStrokes, fitCurveLoaded, nextId, doc0, load, gen,
                   size, phase, call, pre>>

\* eraserButton dblclick, confirmed: documentEditor.clearPaths().  The two
\* clicks of a double click have selected the eraser before it.
ClearPaths ==
    /\ tool.type = "eraser"
    /\ LET r == clearPaths(doc, <<>>, TRUE)
       IN /\ doc' = r.node
          /\ removed' = r.removed
    /\ ev' = Event("clear", 0)
    /\ err' = "none"
    /\ UNCHANGED <<liveStrokes, tool, fitCurveLoaded, nextId, doc0, load, gen,
                   size, phase, call, pre>>

(***************************************************************************)
(* The application: any pointer and toolbar events in any order.           *)
(***************************************************************************)
StartUp ==
    /\ doc \in InitDocs
    /\ doc0 = doc
    /\ liveStrokes = <<>>
    /\ tool = DEFAULT_TOOL
    /\ fitCurveLoaded \in BOOLEAN
    /\ nextId = SetMax(NodeIds(doc)) + 1
    /\ ev = [op |-> "init", id |-> 0, kind |-> "idle", point |-> NoPoint]
    /\ removed = <<>>
    /\ err = "none"

NoCall == [op |-> "none", a |-> <<0, 0>>, b |-> <<0, 0>>, keepIntersecting |-> FALSE,
           recurse |-> FALSE, prev |-> <<"none", FALSE, 0>>]

\* createPathFromStroke has not been called directly.
NoGen == [stroke |-> <<>>, threw |-> FALSE, curves |-> <<>>]

\* No load has been attempted.
NoLoad == [op |-> "none", text |-> <<>>, parsed |-> FALSE, alert |-> "none", count |-> 0]

Init ==
    /\ StartUp
    /\ phase = [id \in Ids |-> 0]
    /\ call = NoCall
    /\ pre = doc
    /\ load = NoLoad
    /\ gen = NoGen
    /\ size = IF doc = createDefaultDocument THEN DefaultSize ELSE LoadedSize

\* The pen sessions in progress.
PenSessions == {k \in DOMAIN liveStrokes : liveStrokes[k].tool.type = "pen"}

\* Bound: at most MaxNewPaths paths are drawn.
CanBegin(id) ==
    tool.type = "pen" => Created + Cardinality(PenSessions \ {id}) < MaxNewPaths

\* Bound: a stroke holds at most MaxStroke points, the last of them added by
\* the end of the gesture.
CanMove(id) == Active(liveStrokes, id) => Len(liveStrokes[id].stroke) < MaxStroke - 1

CanEnd(id) == Active(liveStrokes, id) => Len(liveStrokes[id].stroke) < MaxStroke

\* canvas pointerdown
PointerDown ==
    \E id \in Ids, p \in Points : CanBegin(id) /\ BeginStroke(id, p) /\ UNCHANGED phase

\* canvas pointermove
PointerMove ==
    \E id \in Ids, p \in Points : CanMove(id) /\ MoveStroke(id, p) /\ UNCHANGED phase

\* canvas pointerup
PointerUp ==
    \E id \in Ids, p \in Points : CanEnd(id) /\ EndStroke(id, p) /\ UNCHANGED phase

Next ==
    \/ PointerDown
    \/ PointerMove
    \/ PointerUp
    \/ SelectPen
    \/ SelectEraser
    \/ ClearPaths

Spec == Init /\ [][Next]_vars

(***************************************************************************)
(* The scripted gesture of two pointers: each pointer runs begin, extend,  *)
(* end once, with the pen selected, interleaved in any order.              *)
(***************************************************************************)
ScriptBegin ==
    \E id \in Ids, p \in Points :
        /\ phase[id] = 0
        /\ BeginStroke(id, p)
        /\ phase' = [phase EXCEPT ![id] = 1]

ScriptExtend ==
    \E id \in Ids, p \in Points :
        /\ phase[id] = 1
        /\ MoveStroke(id, p)
        /\ phase' = [phase EXCEPT ![id] = 2]

ScriptEnd ==
    \E id \in Ids, p \in Points :
        /\ phase[id] = 2
        /\ EndStroke(id, p)
        /\ phase' = [phase EXCEPT ![id] = 3]

NextTwoPens ==
    \/ ScriptBegin
    \/ ScriptExtend
    \/ ScriptEnd

SpecTwoPens == Init /\ [][NextTwoPens]_vars

(***************************************************************************)
(* The methods of DocumentEditor called directly, with any arguments:      *)
(* finalizePenStroke, filterIntersecting (through a line from a to b) and  *)
(* clearPaths, each on the document of the editor.                         *)
(***************************************************************************)
\* The strokes a pen gesture can hand over: two to MaxStroke points.
Strokes == UNION {[1..n -> Points] : n \in 2..MaxStroke}

Called(op, a, b, keepIntersecting, recurse) ==
    [op |-> op, a |-> a, b |-> b, keepIntersecting |-> keepIntersecting,
     recurse |-> recurse, prev |-> <<call.op, call.recurse, Len(removed)>>]

CallInsert ==
    \E stroke \in Strokes :
        /\ Created < MaxNewPaths
        /\ doc' = finalizePenStroke(doc, stroke, PenTool, fitCurveLoaded, nextId)
        /\ nextId' = nextId + 1
        /\ removed' = <<>>
        /\ call' = Called("insert", stroke[1], stroke[Len(stroke)], FALSE, FALSE)
        /\ pre' = doc
        /\ UNCHANGED <<liveStrokes, tool, fitCurveLoaded, ev, err, doc0,
                       load, gen, size, phase>>

CallFilter ==
    \E a \in Points, b \in Points, keepIntersecting \in BOOLEAN, recurse \in BOOLEAN :
        LET r == filterIntersecting(ShapeLine(a, b), doc, <<>>, keepIntersecting, recurse)
        IN /\ doc' = r.node
           /\ removed' = r.removed
           /\ call' = Called("filter", a, b, keepIntersecting, recurse)
           /\ pre' = doc
           /\ UNCHANGED <<liveStrokes, tool, fitCurveLoaded, nextId, ev, err, doc0,
                          load, gen, size, phase>>

CallClear ==
    \E recurse \in BOOLEAN :
        LET r == clearPaths(doc, <<>>, recurse)
        IN /\ doc' = r.node
           /\ removed' = r.removed
           /\ call' = Called("clear", <<0, 0>>, <<0, 0>>, FALSE, recurse)
           /\ pre' = doc
           /\ UNCHANGED <<liveStrokes, tool, fitCurveLoaded, nextId, ev, err, doc0,
                          load, gen, size, phase>>

NextEditor ==
    \/ CallInsert
    \/ CallFilter
    \/ CallClear

SpecEditor == Init /\ [][NextEditor]_vars

(***************************************************************************)
(* Gestures that can be interrupted.  phase[id] = 1 while pointer id is in *)
(* contact with the canvas.  A contact ends with a pointerup or is taken   *)
(* away by the browser (pointercancel, lostpointercapture); setupCanvas    *)
(* registers no listener for those, so the program state does not change.  *)
(* Every contact ends one way or the other.  The tool stays the one        *)
(* selected at start-up.                                                   *)
(***************************************************************************)
GestureDown ==
    \E id \in Ids, p \in Points :
        /\ phase[id] = 0
        /\ CanBegin(id)
        /\ BeginStroke(id, p)
        /\ phase' = [phase EXCEPT ![id] = 1]

GestureMove ==
    \E id \in Ids, p \in Points :
        /\ phase[id] = 1
        /\ CanMove(id)
        /\ MoveStroke(id, p)
        /\ UNCHANGED phase

GestureUp ==
    \E id \in Ids, p \in Points :
        /\ phase[id] = 1
        /\ EndStroke(id, p)
        /\ phase' = [phase EXCEPT ![id] = 0]

\* pointercancel: no listener runs.
GestureCancel ==
    \E id \in Ids :
        /\ phase[id] = 1
        /\ phase' = [phase EXCEPT ![id] = 0]
        /\ ev' = Event("cancel", id)
        /\ removed' = <<>>
        /\ err' = "none"
        /\ UNCHANGED <<doc, liveStrokes, tool, fitCurveLoaded, nextId, doc0, load,
                       gen, size, call, pre>>

GestureOver == GestureUp \/ GestureCancel

NextGestures ==
    \/ GestureDown
    \/ GestureMove
    \/ GestureUp
    \/ GestureCancel

SpecGestures == Init /\ [][NextGestures]_vars /\ WF_vars(GestureOver)

(***************************************************************************)
(* Two pen gestures that overlap: pointer 1 goes down first, pointer 2      *)
(* second, each at a position of its own, and pointer 2 is lifted first.   *)
(***************************************************************************)
StartOf(id) == IF id = 1 THEN <<3, 0>> ELSE <<3, 6>>

OverlapBegin ==
    \E id \in Ids :
        /\ phase[id] = 0
        /\ id = 2 => phase[1] >= 1
        /\ BeginStroke(id, StartOf(id))
        /\ phase' = [phase EXCEPT ![id] = 1]

OverlapEnd ==
    \E id \in Ids, p \in Points :
        /\ phase[id] = 2
        /\ id = 1 => phase[2] = 3
        /\ EndStroke(id, p)
        /\ phase' = [phase EXCEPT ![id] = 3]

NextOverlap ==
    \/ OverlapBegin
    \/ ScriptExtend
    \/ OverlapEnd

SpecOverlap == Init /\ [][NextOverlap]_vars

(***************************************************************************)
(* One long gesture at a time: pointer 1 goes down, moves up to            *)
(* MaxLongStroke - 2 times and is lifted, with either tool.  phase[1] is   *)
(* the number of pointer events the canvas has delivered to the handlers   *)
(* during the contact (the pointerdown and the pointermoves), 0 when       *)
(* pointer 1 is not in contact.                                            *)
(***************************************************************************)
MaxLongStroke == 4

LongDown ==
    \E p \in Points :
        /\ phase[1] = 0
        /\ CanBegin(1)
        /\ BeginStroke(1, p)
        /\ phase' = [phase EXCEPT ![1] = 1]

LongMove ==
    \E p \in Points :
        /\ phase[1] \in 1..(MaxLongStroke - 2)
        /\ MoveStroke(1, p)
        /\ phase' = [phase EXCEPT ![1] = @ + 1]

LongUp ==
    \E p \in Points :
        /\ phase[1] >= 1
        /\ EndStroke(1, p)
        /\ phase' = [phase EXCEPT ![1] = 0]

NextLong ==
    \/ LongDown
    \/ LongMove
    \/ LongUp
    \/ SelectPen
    \/ SelectEraser

SpecLong == Init /\ [][NextLong]_vars

(***************************************************************************)
(* An eraser at work while a pen stroke is being drawn: pointer 1 draws    *)
(* with the pen; while it is down the eraser is selected and pointer 2     *)
(* goes down and moves; either pointer is lifted at any time.  phase[id]   *)
(* is 1 after the pointerdown of pointer id, 2 after its pointermove and 3 *)
(* after its pointerup.                                                    *)
(***************************************************************************)
CrossPenDown ==
    \E p \in Points :
        /\ phase[1] = 0
        /\ tool.type = "pen"
        /\ BeginStroke(1, p)
        /\ phase' = [phase EXCEPT ![1] = 1]

CrossPenMove ==
    \E p \in Points :
        /\ phase[1] = 1
        /\ MoveStroke(1, p)
        /\ phase' = [phase EXCEPT ![1] = 2]

CrossPenUp ==
    \E p \in Points :
        /\ phase[1] \in {1, 2}
        /\ EndStroke(1, p)
        /\ phase' = [phase EXCEPT ![1] = 3]

CrossEraserDown ==
    \E p \in Points :
        /\ phase[1] \in {1, 2}
        /\ phase[2] = 0
        /\ tool.type = "eraser"
        /\ BeginStroke(2, p)
        /\ phase' = [phase EXCEPT ![2] = 1]

CrossEraserMove ==
    \E p \in Points :
        /\ phase[1] \in {1, 2}
        /\ phase[2] = 1
        /\ MoveStroke(2, p)
        /\ phase' = [phase EXCEPT ![2] = 2]

CrossEraserUp ==
    \E p \in Points :
        /\ phase[2] \in {1, 2}
        /\ EndStroke(2, p)
        /\ phase' = [phase EXCEPT ![2] = 3]

NextCrossing ==
    \/ CrossPenDown
    \/ CrossPenMove
    \/ CrossPenUp
    \/ SelectEraser
    \/ CrossEraserDown
    \/ CrossEraserMove
    \/ CrossEraserUp

SpecCrossing == Init /\ [][NextCrossing]_vars

(***************************************************************************)
(* The path data of a pen stroke: finalizePenStroke called directly with   *)
(* any stroke of two to MaxStroke points over positions that give curves   *)
(* whose control points do not lie on whole pixels, and strokes whose      *)
(* points coincide.                                                        *)
(***************************************************************************)
PenPoints == {<<0, 0>>, <<3, 0>>, <<1, 2>>}

PenStrokes == UNION {[1..n -> PenPoints] : n \in 2..MaxStroke}

CallFinalize ==
    \E stroke \in PenStrokes :
        /\ Created < MaxNewPaths
        /\ doc' = finalizePenStroke(doc, stroke, PenTool, fitCurveLoaded, nextId)
        /\ nextId' = nextId + 1
        /\ gen' = [stroke |-> stroke,
                   threw |-> ~fitCurveLoaded,
                   curves |-> IF fitCurveLoaded THEN fitCurve(stroke, FIT_MAX_ERROR)
                              ELSE <<>>]
        /\ pre' = doc
        /\ removed' = <<>>
        /\ UNCHANGED <<liveStrokes, tool, fitCurveLoaded, ev, err, doc0, load, size, phase,
                       call>>

NextPathData == CallFinalize

SpecPathData == Init /\ [][NextPathData]_vars

(***************************************************************************)
(* Loading a document (main.js deserializeDocument, utils.js isValidSvg    *)
(* and loadFromLocalStorage, notesvg.js transform, ui.js upload and paste).*)
(* A text is the sequence of its lexemes: whitespace, characters that are  *)
(* no tag, the start tag of an element with its attributes, and an end     *)
(* tag.  The d attribute of a path is given as its commands.  The tags of   *)
(* these texts that begin with the letters svg are svg and svgx.           *)
(***************************************************************************)
Lexeme(k, tag, d, color, strokeWidth) ==
    [k |-> k, tag |-> tag, d |-> d, stroke |-> color, strokeWidth |-> strokeWidth,
     width |-> <<>>, height |-> <<>>]

Ws == Lexeme("ws", "", <<>>, "", 0)

Chars == Lexeme("chars", "", <<>>, "", 0)

Open(tag) == Lexeme("open", tag, <<>>, "", 0)

OpenPath(d, color, width) == Lexeme("open", "path", d, color, width)

Close(tag) == Lexeme("close", tag, <<>>, "", 0)

\* <svg width="..." height="...">
OpenSvg(width, height) == [Open("svg") EXCEPT !.width = width, !.height = height]

\* <path d="M x1 y1 L x2 y2" stroke="#000000" stroke-width="2"></path>
PathText(x1, y1, x2, y2) ==
    <<OpenPath(LoadedPath(0, x1, y1, x2, y2).d, "#000000", 2), Close("path")>>

\* A path that has a quadratic curve command, and no stroke attributes.
QuadPathText ==
    <<OpenPath(<<Cmd("M", <<0, 0>>), Cmd("Q", <<30, 30, 60, 0>>)>>, "", 0), Close("path")>>

\* A document that gives its drawing area by a viewBox: it has neither width
\* nor height.
SmallText == <<Open("svg")>> \o PathText(0, 3, 6, 3) \o <<Close("svg")>>

QuadText == <<Open("svg")>> \o QuadPathText \o <<Close("svg")>>

\* A document whose width is 0.
ZeroText == <<OpenSvg(<<"0">>, <<"3", "0", "0">>)>> \o PathText(0, 3, 6, 3) \o <<Close("svg")>>

\* The text of the stored document, 500 wide and 300 high.
DocumentText ==
    <<OpenSvg(<<"5", "0", "0">>, <<"3", "0", "0">>), Open("metadata"), Close("metadata")>> \o
    PathText(0, 3, 6, 3) \o
    <<Chars, Open("g")>> \o PathText(0, 6, 6, 6) \o
    <<Open("g")>> \o PathText(0, 2, 6, 2) \o <<Close("g")>> \o
    PathText(9, 9, 12, 9) \o <<Close("g"), Close("svg")>>

\* A text that begins with the characters <svg and ends with </svg> whose
\* first element is not an svg element: <svgx><path/></svgx><svg></svg>.
ForeignText ==
    <<Open("svgx")>> \o PathText(0, 3, 6, 3) \o <<Close("svgx"), Open("svg"), Close("svg")>>

\* The texts a file, the clipboard or the local storage may hold: nothing,
\* "not svg", documents, a document inside whitespace, and a document with
\* characters before or after it.
Texts ==
    {<<>>, <<Chars>>, SmallText, <<Ws>> \o SmallText \o <<Ws>>, <<Chars>> \o SmallText,
     SmallText \o <<Chars>>, QuadText, ZeroText, DocumentText}

\* The texts a file or the clipboard may hold.  The program stores no text
\* like ForeignText: what it writes for a root that is not svg does not end
\* with </svg>.
FileTexts == Texts \cup {ForeignText}

\* The tags that begin with the letters svg.
SvgPrefixed == {"svg", "svgx"}

RECURSIVE TrimStart(_)
TrimStart(text) ==
    IF text # <<>> /\ Head(text).k = "ws" THEN TrimStart(Tail(text)) ELSE text

RECURSIVE TrimEnd(_)
TrimEnd(text) ==
    IF text # <<>> /\ text[Len(text)].k = "ws"
    THEN TrimEnd(SubSeq(text, 1, Len(text) - 1))
    ELSE text

\* text.trim()
Trim(text) == TrimEnd(TrimStart(text))

\* text.startsWith('<svg')
StartsWithSvg(text) == text # <<>> /\ text[1].k = "open" /\ text[1].tag \in SvgPrefixed

\* text.endsWith('</svg>')
EndsWithSvg(text) == text # <<>> /\ text[Len(text)] = Close("svg")

\* isValidSvg(text)
isValidSvg(text) == StartsWithSvg(Trim(text)) /\ EndsWithSvg(Trim(text))

RECURSIVE Parse(_, _, _)
\* txml.parse(svgString), from lexeme i on and up to the end tag that closes
\* the enclosing element: the nodes, the position after them, and the
\* identity the next node object gets.  The parser is a library that is not
\* part of the sources; it copies the attributes, makes characters a string
\* child and drops whitespace.
Parse(text, i, id) ==
    IF i > Len(text) \/ text[i].k = "close"
    THEN [nodes |-> <<>>, next |-> i, id |-> id]
    ELSE IF text[i].k = "ws" THEN Parse(text, i + 1, id)
    ELSE IF text[i].k = "chars"
    THEN LET rest == Parse(text, i + 1, id + 1)
         IN [rest EXCEPT !.nodes = <<Text(id)>> \o @]
    ELSE LET inner == Parse(text, i + 1, id + 1)
             node == [id |-> id, tagName |-> text[i].tag, d |-> text[i].d,
                      stroke |-> text[i].stroke, strokeWidth |-> text[i].strokeWidth,
                      children |-> inner.nodes, shape |-> NoShape]
             rest == Parse(text, inner.next + 1, inner.id)
         IN [rest EXCEPT !.nodes = <<node>> \o @]

RECURSIVE transform(_)
\* transform(node): a path gets its stroke, '#000' if it has none, and its
\* stroke width, 1 if it has none; the d attribute is not looked at.
transform(node) ==
    IF IsString(node) THEN node
    ELSE [node EXCEPT
            !.stroke = IF node.tagName = "path" /\ @ = "" THEN "#000" ELSE @,
            !.strokeWidth = IF node.tagName = "path" /\ @ = 0 THEN 1 ELSE @,
            !.children = [i \in DOMAIN @ |-> transform(@[i])]]

\* The svg case of transform: noteSvgAttributes, where a width or height that
\* parseInt reads as NaN or as 0 becomes 0.
SvgSize(attributes) ==
    LET width == parseInt(attributes.width)
        height == parseInt(attributes.height)
    IN [width |-> IF isNaN(width) THEN 0 ELSE width.value,
        height |-> IF isNaN(height) THEN 0 ELSE height.value]

\* The attributes of the first node txml.parse returns.
RootAttributes(svgString) ==
    LET t == TrimStart(svgString)
    IN IF t = <<>> THEN Ws ELSE t[1]

NoSize == [width |-> 0, height |-> 0]

\* What deserializeDocument returns when it throws.
Thrown(message, parsed, id) ==
    [ok |-> FALSE, error |-> message, parsed |-> parsed, node |-> Text(0), nextId |-> id,
     size |-> NoSize]

\* Variant: the text is parsed without the isValidSvg test.
deserializeDocument_Unchecked(svgString, id) ==
    LET parsedNodes == Parse(svgString, 1, id)
    IN IF Len(parsedNodes.nodes) > 0
       THEN [ok |-> TRUE, error |-> "none", parsed |-> TRUE,
             node |-> transform(parsedNodes.nodes[1]), nextId |-> parsedNodes.id,
             size |-> SvgSize(RootAttributes(svgString))]
       ELSE Thrown("Failed to parse SVG", TRUE, id)

\* deserializeDocument(svgString); id is the identity of the first node object
\* the parser creates.
deserializeDocument(svgString, id) ==
    IF ~isValidSvg(svgString) THEN Thrown("Invalid SVG string", FALSE, id)
    ELSE LET parsedNodes == Parse(svgString, 1, id)
         IN IF Len(parsedNodes.nodes) > 0
            THEN [ok |-> TRUE, error |-> "none", parsed |-> TRUE,
                  node |-> transform(parsedNodes.nodes[1]), nextId |-> parsedNodes.id,
                  size |-> SvgSize(RootAttributes(svgString))]
            ELSE Thrown("Failed to parse SVG", TRUE, id)

\* loadFromLocalStorage(deserializeDocument, createDefaultDocument) when the
\* storage holds svgString (nothing: the empty text): the document, and
\* whether the parser was called.  Nothing is shown to the user.
loadFromLocalStorage(svgString) ==
    IF svgString # <<>> /\ isValidSvg(svgString)
    THEN LET r == deserializeDocument(svgString, 1)
         IN [doc |-> IF r.ok THEN r.node ELSE createDefaultDocument,
             size |-> IF r.ok THEN r.size ELSE DefaultSize,
             parsed |-> r.parsed]
    ELSE [doc |-> createDefaultDocument, size |-> DefaultSize, parsed |-> FALSE]

\* Variant: the new root object takes the place of the old one
\* (noteDocument = newDocument).
Assign_Rebinds(noteDocument, newDocument) == newDocument

\* Object.assign(noteDocument, newDocument): the root object stays the one
\* it was and takes the properties of the new root.
Assign(noteDocument, newDocument) ==
    [newDocument EXCEPT !.id = noteDocument.id, !.shape = noteDocument.shape]

\* The noteSvgAttributes of the root after Object.assign: transform gives a
\* new root that is an svg node its own, and a root of another tag none, so
\* the object keeps the ones it had.
AssignSize(noteSize, newDocument, newSize) ==
    IF newDocument.tagName = "svg" THEN newSize ELSE noteSize

\* resizeCanvas(), as updateDocument calls it: the message of the error it
\* throws, "none" when it throws none.
resizeCanvas(svg) ==
    IF svg.tagName # "svg" THEN "Document root is not an SVG node!" ELSE "none"

\* Bound: the number of uploads and pastes.
MaxLoads == 1

Loaded(op, text, parsed, alert) ==
    [op |-> op, text |-> text, parsed |-> parsed, alert |-> alert, count |-> load.count + 1]

\* uploadButton: reader.onload with the text of the chosen file.  The try
\* block runs deserializeDocument, Object.assign and updateDocument, whose
\* resizeCanvas throws when the root is not an svg node; the catch shows the
\* message of whichever threw and leaves what was assigned as it is.
Upload ==
    \E text \in FileTexts :
        LET r == deserializeDocument(text, nextId)
        IN /\ load.count < MaxLoads
           /\ doc' = IF r.ok THEN Assign(doc, r.node) ELSE doc
           /\ size' = IF r.ok THEN AssignSize(size, r.node, r.size) ELSE size
           /\ nextId' = r.nextId
           /\ load' = Loaded("upload", text, r.parsed,
                             IF r.ok THEN resizeCanvas(Assign(doc, r.node)) ELSE r.error)
           /\ pre' = doc
           /\ ev' = Event("upload", 0)
           /\ removed' = <<>>
           /\ err' = "none"
           /\ UNCHANGED <<liveStrokes, tool, fitCurveLoaded, doc0, phase, call, gen>>

\* pasteButton click with the text of the clipboard.
Paste ==
    \E text \in FileTexts :
        LET valid == isValidSvg(text)
            r == deserializeDocument(text, nextId)
        IN /\ load.count < MaxLoads
           /\ doc' = IF valid /\ r.ok THEN Assign(doc, r.node) ELSE doc
           /\ size' = IF valid /\ r.ok THEN AssignSize(size, r.node, r.size) ELSE size
           /\ nextId' = IF valid THEN r.nextId ELSE nextId
           /\ load' = IF ~valid
                      THEN Loaded("paste", text, FALSE, "Clipboard contents are not an SVG")
                      ELSE Loaded("paste", text, r.parsed,
                                  IF r.ok THEN resizeCanvas(Assign(doc, r.node)) ELSE r.error)
           /\ pre' = doc
           /\ ev' = Event("paste", 0)
           /\ removed' = <<>>
           /\ err' = "none"
           /\ UNCHANGED <<liveStrokes, tool, fitCurveLoaded, doc0, phase, call, gen>>

\* Start-up with any text in the local storage.
InitLoad ==
    /\ \E text \in Texts :
           LET r == loadFromLocalStorage(text)
           IN /\ doc = r.doc
              /\ size = r.size
              /\ load = [op |-> "storage", text |-> text, parsed |-> r.parsed,
                         alert |-> "none", count |-> 0]
    /\ doc0 = doc
    /\ pre = doc
    /\ nextId = SetMax(NodeIds(doc)) + 1
    /\ liveStrokes = <<>>
    /\ tool = DEFAULT_TOOL
    /\ fitCurveLoaded \in BOOLEAN
    /\ ev = [op |-> "init", id |-> 0, kind |-> "idle", point |-> NoPoint]
    /\ removed = <<>>
    /\ err = "none"
    /\ phase = [id \in Ids |-> 0]
    /\ call = NoCall
    /\ gen = NoGen

NextLoad ==
    \/ Upload
    \/ Paste

SpecLoad == InitLoad /\ [][NextLoad]_vars

(***************************************************************************)
(* Drawing on a loaded document: after an upload or a paste, pointer 1     *)
(* makes two gestures, each a pointerdown and a pointerup, with the tool   *)
(* selected at its pointerdown.  phase[1] counts the pointerdowns and      *)
(* pointerups so far.                                                      *)
(***************************************************************************)
DrawDown ==
    \E p \in Points :
        /\ phase[1] \in {0, 2}
        /\ load.count >= 1
        /\ BeginStroke(1, p)
        /\ phase' = [phase EXCEPT ![1] = @ + 1]

DrawUp ==
    \E p \in Points :
        /\ phase[1] \in {1, 3}
        /\ EndStroke(1, p)
        /\ phase' = [phase EXCEPT ![1] = @ + 1]

NextLoadDraw ==
    \/ Upload
    \/ Paste
    \/ SelectPen
    \/ SelectEraser
    \/ DrawDown
    \/ DrawUp

SpecLoadDraw == Init /\ [][NextLoadDraw]_vars

(***************************************************************************)
(* The buttons (ui.js): resize, save and copy, pressed in any order, also  *)
(* while a pointer is down.  What a handler writes to a file, to the       *)
(* clipboard, to the local storage or on the canvases is left out.         *)
(***************************************************************************)
\* What the user may type into the prompt of the resize button: nothing (or
\* cancel), "480x480", "0x0", "-5x10", "4", "axb", " 12 x 7 ", "4x3x2",
\* "3.9x7px", "0X10x5" and a tab before "1x1".
SizeStrings ==
    {<<>>,
     <<"4", "8", "0", "x", "4", "8", "0">>,
     <<"0", "x", "0">>,
     <<"-", "5", "x", "1", "0">>,
     <<"4">>,
     <<"a", "x", "b">>,
     <<" ", "1", "2", " ", "x", " ", "7", " ">>,
     <<"4", "x", "3", "x", "2">>,
     <<"3", ".", "9", "x", "7", "p", "x">>,
     <<"0", "X", "1", "0", "x", "5">>,
     <<"\t", "1", "x", "1">>}

\* Variant: a resize starts a new document.
Resize_NewDocument ==
    \E sizeStr \in SizeStrings :
        LET sz == parseSizeString(sizeStr)
        IN /\ size' = IF sz.ok THEN [width |-> sz.width, height |-> sz.height] ELSE size
           /\ doc' = IF sz.ok THEN createDefaultDocument ELSE doc
           /\ ev' = Event("resize", 0)
           /\ removed' = <<>>
           /\ err' = "none"
           /\ UNCHANGED <<liveStrokes, tool, fitCurveLoaded, nextId, doc0, load, gen, phase,
                          call, pre>>

\* resizeButton click: the size is set if parseSizeString accepts the string,
\* and updateDocument then redraws and saves; its resizeCanvas throws, after
\* the size is set, when the root is not an svg node.
Resize ==
    \E sizeStr \in SizeStrings :
        LET sz == parseSizeString(sizeStr)
        IN /\ size' = IF sz.ok THEN [width |-> sz.width, height |-> sz.height] ELSE size
           /\ ev' = Event("resize", 0)
           /\ removed' = <<>>
           /\ err' = IF sz.ok THEN resizeCanvas(doc) ELSE "none"
           /\ UNCHANGED <<doc, liveStrokes, tool, fitCurveLoaded, nextId, doc0, load, gen,
                          phase, call, pre>>

\* LINK_ELEMENT: an a element that holds a text element that holds "Edit".
\* It is one object of the module, with identities of its own.
LINK_ELEMENT == Node(-1, "a", <<Node(-2, "text", <<Text(-3)>>)>>)

\* hasLink: a child of the root is an a element of this origin (the model has
\* no a element of another origin).
HasLink(noteDocument) ==
    \E i \in DOMAIN noteDocument.children :
        ~IsString(noteDocument.children[i]) /\ noteDocument.children[i].tagName = "a"

\* serializeDocument(noteDocument, addLink): the document as the call leaves
\* it.  The string it returns goes to a file, the clipboard or the storage.
serializeDocument(noteDocument, addLink) ==
    IF addLink /\ ~HasLink(noteDocument)
    THEN [noteDocument EXCEPT !.children = Append(@, LINK_ELEMENT)]
    ELSE noteDocument

\* saveButton click
Save ==
    /\ doc' = serializeDocument(doc, TRUE)
    /\ pre' = doc
    /\ ev' = Event("save", 0)
    /\ removed' = <<>>
    /\ err' = "none"
    /\ UNCHANGED <<liveStrokes, tool, fitCurveLoaded, nextId, doc0, load, gen, size, phase,
                   call>>

\* copyButton click
Copy ==
    /\ doc' = serializeDocument(doc, TRUE)
    /\ pre' = doc
    /\ ev' = Event("copy", 0)
    /\ removed' = <<>>
    /\ err' = "none"
    /\ UNCHANGED <<liveStrokes, tool, fitCurveLoaded, nextId, doc0, load, gen, size, phase,
                   call>>

NextButtons ==
    \/ Resize
    \/ Save
    \/ Copy
    \/ PointerDown

SpecButtons == Init /\ [][NextButtons]_vars

(***************************************************************************)
(* Vocabulary of the properties.                                           *)
(***************************************************************************)
IsPath(n) == n.tagName = "path"

NumPaths(n) == Len(SelectSeq(Nodes(n), IsPath))

SeqIds(s) == {s[i].id : i \in DOMAIN s}

Last(s) == s[Len(s)]

\* The path's own geometry, decoded from its command string, meets the
\* line from a to b.
Crosses(n, a, b) == Intersects(ShapePath(n.d), ShapeLine(a, b))

RECURSIVE Strip(_)
\* The tree without its cached geometry.
Strip(n) ==
    [n EXCEPT !.shape = NoShape,
              !.children = [i \in DOMAIN n.children |-> Strip(n.children[i])]]

RECURSIVE DropPaths(_)
\* The tree without its path nodes: every other node under the same parent,
\* in the same order.
DropPaths(n) ==
    LET kept == SelectSeq(n.children, LAMBDA c : ~IsPath(c))
    IN [n EXCEPT !.children = [i \in DOMAIN kept |-> DropPaths(kept[i])]]

\* The ids of the path nodes that are not children of the root.
NestedPathIds(n) == PathIds(n) \ {c.id : c \in Range(n.children)}

AllDone == \A id \in Ids : phase[id] = 3

\* The last direct call was filterIntersecting with keepIntersecting = false.
FilterRemoving == call.op = "filter" /\ ~call.keepIntersecting

\* The path was drawn by pointer id of the overlapping gestures: it starts
\* where that pointer went down.
DrawnBy(n, id) ==
    /\ IsPath(n)
    /\ Len(n.d) > 0
    /\ n.d[1] = Cmd("M", <<10 * StartOf(id)[1], 10 * StartOf(id)[2]>>)

\* The last two children of the root are the path of pointer 2 and then the
\* path of pointer 1.
InEndOrder(root) ==
    LET k == Len(root.children)
    IN /\ k >= 2
       /\ DrawnBy(root.children[k - 1], 2)
       /\ DrawnBy(root.children[k], 1)

\* A strict tree: every node object appears once, the only svg element is the
\* root, and no path has children.
WellFormed(root) ==
    /\ root.tagName = "svg"
    /\ Len(Nodes(root)) = Cardinality(NodeIds(root))
    /\ \A i \in 2..Len(Nodes(root)) : Nodes(root)[i].tagName # "svg"
    /\ \A n \in Range(Nodes(root)) : IsPath(n) => n.children = <<>>

\* A start tag that begins with the characters <svg, with any attributes.
IsSvgStart(lexeme) == lexeme.k = "open" /\ lexeme.tag \in SvgPrefixed

\* The text itself begins with the start tag of svg and ends with its end
\* tag.
BeginsAndEnds(text) ==
    /\ text # <<>>
    /\ IsSvgStart(text[1])
    /\ text[Len(text)] = Close("svg")

\* The text is a start tag of svg, what follows it, and an end tag of svg,
\* with nothing but whitespace before and after.
Wrapped(text) ==
    \E i \in DOMAIN text, j \in DOMAIN text :
        /\ i < j
        /\ IsSvgStart(text[i])
        /\ text[j] = Close("svg")
        /\ \A k \in DOMAIN text : (k < i \/ k > j) => text[k] = Ws

\* The commands of the closed vocabulary: move, line, cubic curve.
PathCommands == {"M", "L", "C"}

\* A point of the fitter, given in thirds of a pixel, as the two numbers
\* written for it, in tenths.
Written(pt) == <<roundNumber(pt[1]), roundNumber(pt[2])>>

\* A pixel position in tenths.
Tenths(p) == <<10 * p[1], 10 * p[2]>>

\* The path that the last direct call of finalizePenStroke created.
NewPath == Last(doc.children)

Finalized == gen.stroke # <<>>

\* The paths drawn since start-up.
DrawnPaths == {n \in Range(Nodes(doc)) : IsPath(n) /\ n.id \notin NodeIds(doc0)}

\* A colour written as # and six digits has seven characters; every colour
\* of the model is a # and hexadecimal digits.
SixHexDigits(color) == Len(color) = 7

\* The commands the format description allows in path data.
FormatCommands == {"M", "L"}

\* The place of the node in the pre-order of the tree as it was before the
\* last direct call.
PreOrderIndex(id) == CHOOSE i \in DOMAIN Nodes(pre) : Nodes(pre)[i].id = id

\* The cached geometry of every path of the tree is the geometry of its d.
CachesAreCurrent(root) ==
    \A n \in Range(Nodes(root)) :
        (IsPath(n) /\ n.shape.cached) => n.shape.segs = ShapePath(n.d)

(***************************************************************************)
(* Properties.                                                             *)
(***************************************************************************)

\* C1: when two pointers have each run begin, extend, end with the pen, in
\* any interleaving, the tree holds exactly two more path nodes than at the
\* start.
C1_TwoPenGesturesAddTwoPaths ==
    AllDone => NumPaths(doc) = NumPaths(doc0) + 2

C1_Witness ==
    /\ AllDone
    /\ NumPaths(doc0) > 0
    /\ NumPaths(doc) = NumPaths(doc0) + 2
    /\ liveStrokes = <<>>

\* C2: the end of a pen session appends exactly one new path node, without
\* children and with a fresh identity, as the last child of the root, and
\* leaves every node that was in the tree as it was.
C2_PenEndAppendsOnePath ==
    [][(ev'.op = "end" /\ ev'.kind = "pen") =>
          /\ Len(doc'.children) = Len(doc.children) + 1
          /\ SubSeq(doc'.children, 1, Len(doc.children)) = doc.children
          /\ [doc' EXCEPT !.children = doc.children] = doc
          /\ IsPath(Last(doc'.children))
          /\ Last(doc'.children).children = <<>>
          /\ Last(doc'.children).id \notin NodeIds(doc)
          /\ NumPaths(doc') = NumPaths(doc) + 1]_vars

C2_Witness ==
    /\ ev.op = "end"
    /\ ev.kind = "pen"
    /\ err = "none"
    /\ PathIds(doc0) # {}
    /\ PathIds(doc0) \subseteq PathIds(doc)
    /\ Last(doc.children).id = nextId - 1

\* C3: an extend of an eraser session erases along the segment from the last
\* point of the stroke, as it was before the extend, to the new point: after
\* the step no path meeting that segment is in the tree, the new point is
\* the last of the stroke, and the session is still there.
C3_EraserExtendErasesAlongLastSegment ==
    [][(ev'.op = "move" /\ ev'.kind = "eraser") =>
          /\ ev'.id \in DOMAIN liveStrokes'
          /\ Len(liveStrokes'[ev'.id].stroke) = Len(liveStrokes[ev'.id].stroke) + 1
          /\ liveStrokes'[ev'.id].stroke =
                 Append(liveStrokes[ev'.id].stroke, Last(liveStrokes'[ev'.id].stroke))
          /\ \A n \in Range(Nodes(doc')) :
                 IsPath(n) => ~Crosses(n, Last(liveStrokes[ev'.id].stroke),
                                       Last(liveStrokes'[ev'.id].stroke))]_vars

C3_Witness ==
    /\ ev.op = "move"
    /\ ev.kind = "eraser"
    /\ ev.id \in DOMAIN liveStrokes
    /\ removed # <<>>
    /\ PathIds(doc0) \ PathIds(doc) # {}

\* C4: filterIntersecting with keepIntersecting = false removes no node that
\* is not a path, removes a path only if the path's own geometry meets the
\* line, and, when no path meets the line, changes nothing and returns an
\* empty array.
C4_FilterRemovesOnlyCrossedPaths ==
    FilterRemoving =>
        /\ DropPaths(Strip(doc)) = DropPaths(Strip(pre))
        /\ \A n \in Range(Nodes(pre)) :
               (IsPath(n) /\ n.id \notin PathIds(doc)) => Crosses(n, call.a, call.b)
        /\ (\A n \in Range(Nodes(pre)) : IsPath(n) => ~Crosses(n, call.a, call.b))
               => (Strip(doc) = Strip(pre) /\ removed = <<>>)

C4_Witness ==
    /\ FilterRemoving
    /\ call.recurse
    /\ NestedPathIds(pre) \ PathIds(doc) # {}
    /\ NestedPathIds(doc) # {}

\* C5: after filterIntersecting with keepIntersecting = false and
\* recurse = true, no path that meets the line is left at any depth.
C5_NoCrossedPathRemains ==
    (FilterRemoving /\ call.recurse) =>
        \A n \in Range(Nodes(doc)) : IsPath(n) => ~Crosses(n, call.a, call.b)

C5_Witness ==
    /\ FilterRemoving
    /\ call.recurse
    /\ NestedPathIds(pre) \ PathIds(doc) # {}

\* C6: the array filterIntersecting returns with keepIntersecting = false and
\* recurse = true holds exactly the nodes taken out of the tree, those taken
\* out of nested containers included.
C6_RemovedListsEveryExcisedPath ==
    (FilterRemoving /\ call.recurse) =>
        /\ SeqIds(removed) = PathIds(pre) \ PathIds(doc)
        /\ Len(removed) = Cardinality(PathIds(pre) \ PathIds(doc))

\* C7: clearPaths with recurse = true leaves no path at any depth, returns
\* each path it removed exactly once, and leaves every other node under the
\* same parent in the same order.
C7_ClearRemovesEveryPath ==
    (call.op = "clear" /\ call.recurse) =>
        /\ PathIds(doc) = {}
        /\ SeqIds(removed) = PathIds(pre)
        /\ Len(removed) = Cardinality(PathIds(pre))
        /\ doc = DropPaths(pre)

C7_Witness ==
    /\ call.op = "clear"
    /\ call.recurse
    /\ NestedPathIds(pre) # {}
    /\ Len(removed) > Cardinality(NestedPathIds(pre))
    /\ \E n \in Range(Nodes(doc)) : IsString(n)

\* C8: a clearPaths call that directly follows a clearPaths call with the
\* same recurse argument returns an empty array and leaves the tree as the
\* first call left it.
C8_SecondClearRemovesNothing ==
    (call.op = "clear" /\ call.prev[1] = "clear" /\ call.prev[2] = call.recurse) =>
        (removed = <<>> /\ doc = pre)

C8_Witness ==
    /\ call.op = "clear"
    /\ call.recurse
    /\ call.prev[1] = "clear"
    /\ call.prev[2]
    /\ call.prev[3] > 1
    /\ removed = <<>>

\* C9: an extend for a pointer without a session raises nothing and leaves
\* the session map and the tree as they were.
C9_ExtendWithoutSessionIsNoOp ==
    [][(ev'.op = "move" /\ ev'.kind = "idle") =>
          (liveStrokes' = liveStrokes /\ doc' = doc /\ err' = "none")]_vars

C9_Witness ==
    /\ ev.op = "move"
    /\ ev.kind = "idle"
    /\ ev.id \notin DOMAIN liveStrokes
    /\ err = "none"

\* C10: an end for a pointer without a session raises nothing and leaves the
\* session map and the tree as they were.
C10_EndWithoutSessionIsNoOp ==
    [][(ev'.op = "end" /\ ev'.kind = "idle") =>
          (liveStrokes' = liveStrokes /\ doc' = doc /\ err' = "none")]_vars

\* C11: every session that becomes Active is eventually Idle again, also when
\* its gesture is interrupted after the begin.
C11_ActiveSessionReturnsToIdle ==
    \A id \in Ids : Active(liveStrokes, id) ~> ~Active(liveStrokes, id)

\* C12: a begin leaves its pointer with a session whose stroke is exactly the
\* point of the begin, whether or not the pointer had a session before, and
\* creates no node: the tree is as it was.
C12_BeginStartsFreshSession ==
    [][ev'.op = "begin" =>
          /\ Active(liveStrokes', ev'.id)
          /\ liveStrokes'[ev'.id].stroke = <<ev'.point>>
          /\ doc' = doc
          /\ nextId' = nextId]_vars

C12_Witness ==
    /\ ev.op = "begin"
    /\ ev.kind = "pen"
    /\ liveStrokes[ev.id].stroke = <<ev.point>>
    /\ NumPaths(doc) = NumPaths(doc0)

\* C13: a session keeps the tool that was selected at its begin.  Selecting a
\* tool changes no session and not the tree; a begin stores the selected
\* tool; no other step changes the tool of a session; and whatever is
\* selected by then, an extend of a pen session leaves the tree alone, an
\* extend of an eraser session leaves no path crossing its segment, the end
\* of a pen session adds one path and the end of an eraser session adds none.
C13_SessionKeepsToolOfBegin ==
    [][/\ (ev'.op \in {"selectPen", "selectEraser"} =>
              (liveStrokes' = liveStrokes /\ doc' = doc))
       /\ (ev'.op = "begin" => liveStrokes'[ev'.id].tool = tool)
       /\ \A id \in DOMAIN liveStrokes \cap DOMAIN liveStrokes' :
              (ev'.op # "begin" \/ ev'.id # id) =>
                  liveStrokes'[id].tool = liveStrokes[id].tool
       /\ ((ev'.op = "move" /\ ev'.kind = "pen") => doc' = doc)
       /\ ((ev'.op = "move" /\ ev'.kind = "eraser") =>
              \A n \in Range(Nodes(doc')) :
                  IsPath(n) => ~Crosses(n, Last(liveStrokes[ev'.id].stroke),
                                        Last(liveStrokes'[ev'.id].stroke)))
       /\ ((ev'.op = "end" /\ ev'.kind = "pen") =>
              (NumPaths(doc') = NumPaths(doc) + 1 /\ nextId' = nextId + 1))
       /\ ((ev'.op = "end" /\ ev'.kind = "eraser") =>
              (PathIds(doc') \subseteq PathIds(doc) /\ nextId' = nextId))]_vars

\* A pen session ended, and added its path, while the eraser was selected.
C13_Witness ==
    /\ ev.op = "end"
    /\ ev.kind = "pen"
    /\ tool.type = "eraser"
    /\ err = "none"
    /\ IsPath(Last(doc.children))
    /\ Last(doc.children).id = nextId - 1
    /\ nextId > SetMax(NodeIds(doc0)) + 1

\* C14: the end of a session leaves its pointer without a session; only a
\* begin for a pointer gives it one; and an extend or end for a pointer
\* without a session leaves the tree and the sessions as they were and
\* creates no node.
C14_EndedSessionIsGone ==
    [][/\ ((ev'.op = "end" /\ ev'.kind # "idle") => ~Active(liveStrokes', ev'.id))
       /\ \A id \in Ids :
              (~Active(liveStrokes, id) /\ Active(liveStrokes', id)) =>
                  (ev'.op = "begin" /\ ev'.id = id)
       /\ ((ev'.op \in {"move", "end"} /\ ev'.kind = "idle") =>
              (doc' = doc /\ liveStrokes' = liveStrokes /\ nextId' = nextId))]_vars

\* A pointer-up for a pointer without a session, after the one pen gesture
\* has ended and left its path.
C14_Witness ==
    /\ ev.op = "end"
    /\ ev.kind = "idle"
    /\ liveStrokes = <<>>
    /\ Created = 1
    /\ NumPaths(doc) = NumPaths(doc0) + 1

\* C15: a path joins the tree only at the end of a pen session; a path leaves
\* the tree only at an extend of an eraser session, at the final extend that
\* the end of an eraser session runs, or at clearPaths; a begin and an extend
\* of a pen session leave the tree as it was; and the end of an eraser
\* session takes out nothing but paths that cross its last segment.
C15_PathsComeAndGoByPenEraserClear ==
    [][/\ (PathIds(doc') \ PathIds(doc) # {} => (ev'.op = "end" /\ ev'.kind = "pen"))
       /\ (PathIds(doc) \ PathIds(doc') # {} =>
              \/ (ev'.op \in {"move", "end"} /\ ev'.kind = "eraser")
              \/ ev'.op = "clear")
       /\ (NodeIds(doc) \ NodeIds(doc') \subseteq PathIds(doc))
       /\ ((ev'.op = "begin" \/ (ev'.op = "move" /\ ev'.kind = "pen")) => doc' = doc)
       /\ ((ev'.op = "end" /\ ev'.kind = "eraser") =>
              /\ PathIds(doc') \subseteq PathIds(doc)
              /\ DropPaths(Strip(doc')) = DropPaths(Strip(doc))
              /\ \E p \in Points :
                     \A n \in Range(Nodes(doc)) :
                         (IsPath(n) /\ n.id \notin PathIds(doc')) =>
                             Crosses(n, Last(liveStrokes[ev'.id].stroke), p))]_vars

\* An eraser session ended and its final extend took out a path.
C15_Witness ==
    /\ ev.op = "end"
    /\ ev.kind = "eraser"
    /\ removed # <<>>
    /\ SeqIds(removed) \subseteq PathIds(doc0)
    /\ PathIds(doc) # PathIds(doc0)

\* C16: in every state the handlers leave, the tree is a strict tree under
\* its one root, no path has children, and no node of the array the last
\* erasure or clearPaths returned is still in the tree.
C16_TreeStaysWellFormed ==
    /\ WellFormed(doc)
    /\ SeqIds(removed) \cap NodeIds(doc) = {}

\* clearPaths took out the paths of the loaded document and the drawn one.
C16_Witness ==
    /\ ev.op = "clear"
    /\ NumPaths(doc0) > 0
    /\ Len(removed) = NumPaths(doc0) + 1
    /\ WellFormed(doc)
    /\ NumPaths(doc) = 0

\* C17: the end of a pen gesture appends the path of the pointer that ended
\* as the last child of the root and leaves the children before it as they
\* were; when both overlapping gestures are over, the path of pointer 2,
\* which went down second and up first, comes before the path of pointer 1.
C17_PathsInOrderOfEnd ==
    [][/\ ((ev'.op = "end" /\ ev'.kind = "pen") =>
              /\ Len(doc'.children) = Len(doc.children) + 1
              /\ SubSeq(doc'.children, 1, Len(doc.children)) = doc.children
              /\ DrawnBy(Last(doc'.children), ev'.id))
       /\ (AllDone' => InEndOrder(doc'))]_vars

C17_Witness ==
    /\ AllDone
    /\ InEndOrder(doc)
    /\ Len(doc.children) = Len(doc0.children) + 2
    /\ SubSeq(doc.children, 1, Len(doc0.children)) = doc0.children
    /\ NumPaths(doc0) > 0

\* C18: a begin, extend or end for one pointer leaves the session of every
\* other pointer, its tool and its points, as it was.
C18_SessionsAreIndependent ==
    [][ev'.op \in {"begin", "move", "end"} =>
          \A other \in Ids \ {ev'.id} :
              /\ Active(liveStrokes', other) <=> Active(liveStrokes, other)
              /\ Active(liveStrokes, other) => liveStrokes'[other] = liveStrokes[other]]_vars

\* A pen session ended while another pointer's eraser session, two points
\* long, goes on.
C18_Witness ==
    /\ ev.op = "end"
    /\ ev.kind = "pen"
    /\ \E other \in Ids \ {ev.id} :
           /\ Active(liveStrokes, other)
           /\ liveStrokes[other].tool.type = "eraser"
           /\ Len(liveStrokes[other].stroke) = 2

\* C19, as stated: a text that does not begin with the start tag of svg and
\* end with its end tag is not parsed and an error is reported, whichever
\* way it was loaded: from a file, the clipboard or the local storage.
C19_UnwrappedTextIsRejectedWithError ==
    (load.op # "none" /\ load.text # <<>> /\ ~BeginsAndEnds(load.text)) =>
        (~load.parsed /\ load.alert # "none")

\* C19, amended: a text that, without the whitespace around it, does not
\* begin with the start tag of svg and end with its end tag is never parsed;
\* an upload and a paste report an error and leave the document as it was,
\* the start-up from local storage reports none and takes the default
\* document.
C19_UnwrappedTextIsNeverParsed ==
    (load.op # "none" /\ ~Wrapped(load.text)) =>
        /\ ~load.parsed
        /\ load.op \in {"upload", "paste"} =>
               (load.alert # "none" /\ doc = pre /\ NodeIds(doc) = NodeIds(pre))
        /\ load.op = "storage" => (load.alert = "none" /\ doc = createDefaultDocument)

\* A paste of a document with characters before it, onto a loaded document.
C19_Witness ==
    /\ load.op = "paste"
    /\ load.text = <<Chars>> \o SmallText
    /\ ~load.parsed
    /\ load.alert = "Clipboard contents are not an SVG"
    /\ doc = LoadedDocument

\* C20: no path with a command outside move, line and cubic curve is ever
\* accepted into the tree.
C20_ForeignCommandIsNeverAccepted ==
    \A n \in Range(Nodes(doc)) :
        IsPath(n) => \A i \in DOMAIN n.d : n.d[i].op \in PathCommands

\* C21: when the fitter returned at least one curve, the command string of
\* the created path is a move-to at the start point of the first curve and
\* then, for each curve in order, one cubic-curve command with the two control
\* points and the end point of that curve, and nothing else.
C21_OneCurveCommandPerSegment ==
    (Finalized /\ Len(gen.curves) >= 1) =>
        /\ IsPath(NewPath)
        /\ Len(NewPath.d) = Len(gen.curves) + 1
        /\ NewPath.d[1] = Cmd("M", Written(gen.curves[1][1]))
        /\ \A i \in DOMAIN gen.curves :
               NewPath.d[i + 1] = Cmd("C", Written(gen.curves[i][2]) \o
                                          Written(gen.curves[i][3]) \o
                                          Written(gen.curves[i][4]))

\* Two curves, the first with control points off the whole pixels.
C21_Witness ==
    /\ Finalized
    /\ Len(gen.curves) = 2
    /\ Len(NewPath.d) = 3
    /\ NewPath.d[2].op = "C"
    /\ NewPath.d[2].args[1] % 10 # 0
    /\ NewPath.id = nextId - 1

\* C22: when the call of the fitter throws, or the fitter returns no curve,
\* for a stroke of two or more points, a path is created all the same, and
\* its command string is a move-to at the first point of the stroke and one
\* line-to for each further point, in the order of the stroke.
C22_FallbackIsPolyline ==
    (Finalized /\ (gen.threw \/ gen.curves = <<>>)) =>
        /\ Len(doc.children) = Len(pre.children) + 1
        /\ IsPath(NewPath)
        /\ Len(NewPath.d) = Len(gen.stroke)
        /\ NewPath.d[1] = Cmd("M", Tenths(gen.stroke[1]))
        /\ \A i \in 2..Len(gen.stroke) : NewPath.d[i] = Cmd("L", Tenths(gen.stroke[i]))

\* The fitter was called and returned no curve for a stroke of three points.
C22_Witness ==
    /\ Finalized
    /\ ~gen.threw
    /\ gen.curves = <<>>
    /\ Len(gen.stroke) = 3
    /\ Len(NewPath.d) = 3
    /\ NewPath.d[3].op = "L"

\* C23: the command string of the path of a pen stroke starts with a move-to
\* at the first point of the stroke, ends at the last point of the stroke,
\* and has no further move-to, so that each command starts where the one
\* before it ended; the curves the fitter returned meet end to start.
C23_PathCoversTheStroke ==
    Finalized =>
        /\ IsPath(NewPath)
        /\ Len(NewPath.d) >= 2
        /\ NewPath.d[1] = Cmd("M", Tenths(gen.stroke[1]))
        /\ EndPoint(Last(NewPath.d)) = Tenths(Last(gen.stroke))
        /\ \A i \in 2..Len(NewPath.d) : NewPath.d[i].op \in {"L", "C"}
        /\ \A i \in 1..(Len(gen.curves) - 1) : gen.curves[i][4] = gen.curves[i + 1][1]

\* A stroke that comes back to where it started, fitted by two curves.
C23_Witness ==
    /\ Finalized
    /\ Len(gen.curves) = 2
    /\ gen.stroke[1] = Last(gen.stroke)
    /\ gen.stroke[1] # gen.stroke[2]
    /\ EndPoint(Last(NewPath.d)) = Tenths(gen.stroke[1])

\* C24: in every state the width and the height of the root are positive;
\* a resize that would make one of them zero or negative does not take
\* effect.
C24_RootSizeIsPositive ==
    size.width > 0 /\ size.height > 0

\* C25: a resize changes nothing but the width and height of the root: the
\* tree with every path, the sessions, the selected tool and the identities
\* handed out stay as they were, and the size changes only to one that
\* parseSizeString returned.
C25_ResizeChangesOnlyTheSize ==
    [][ev'.op = "resize" =>
          /\ doc' = doc
          /\ liveStrokes' = liveStrokes
          /\ tool' = tool
          /\ nextId' = nextId
          /\ (size' # size =>
                 \E sizeStr \in SizeStrings :
                     /\ parseSizeString(sizeStr).ok
                     /\ size'.width = parseSizeString(sizeStr).width
                     /\ size'.height = parseSizeString(sizeStr).height)]_vars

\* The stored document resized to 480 by 480 while a pointer is down.
C25_Witness ==
    /\ ev.op = "resize"
    /\ size = [width |-> 480, height |-> 480]
    /\ liveStrokes # <<>>
    /\ doc = LoadedDocument
    /\ NumPaths(doc) = 4

\* C26: every path that the end of a pen gesture created has a stroke colour
\* written with six hexadecimal digits and a positive stroke width.
C26_NewPathHasSixDigitColour ==
    \A n \in DrawnPaths : SixHexDigits(n.stroke) /\ n.strokeWidth > 0

\* C27: when the document at start-up held one metadata element and paths,
\* the element children of the root stay at most one metadata element and
\* paths, whatever is drawn, saved or copied.
C27_RootHoldsMetadataAndPaths ==
    doc0 = createDefaultDocument =>
        /\ \A i \in DOMAIN doc.children :
               IsString(doc.children[i]) \/ doc.children[i].tagName \in {"metadata", "path"}
        /\ Cardinality({i \in DOMAIN doc.children : doc.children[i].tagName = "metadata"}) <= 1

\* C28: the path data of every path that the end of a pen gesture created
\* has no command but M and L.
C28_NewPathUsesOnlyMoveAndLine ==
    \A n \in DrawnPaths : \A i \in DOMAIN n.d : n.d[i].op \in FormatCommands

\* C29: the geometry cached on a path is the geometry of the command string
\* the path has: a path that was never hit-tested has no cached geometry,
\* every cached geometry in the tree, in the array a call returned and in
\* the tree the call started from is that of the node's own d, and no step
\* changes the d of a node.
C29_CachedGeometryIsCurrent ==
    [][/\ CachesAreCurrent(doc')
       /\ CachesAreCurrent(Node(0, "removed", removed'))
       /\ (call'.op = "insert" => ~Last(doc'.children).shape.cached)
       /\ \A n \in Range(Nodes(doc)), m \in Range(Nodes(doc')) : n.id = m.id => n.d = m.d]_vars

\* A second hit-test in a row, with paths in the tree that were cached by
\* the first.
C29_Witness ==
    /\ call.op = "filter"
    /\ call.prev[1] = "filter"
    /\ \E n \in Range(Nodes(pre)) :
           /\ IsPath(n)
           /\ n.shape.cached
           /\ n.shape.segs # <<>>
           /\ n.id \in PathIds(doc)

\* C30: the array filterIntersecting or clearPaths returned lists its nodes
\* in the pre-order of the tree as it was before the call.
C30_RemovedIsInPreOrder ==
    call.op \in {"filter", "clear"} =>
        \A i \in DOMAIN removed, j \in DOMAIN removed :
            i < j => PreOrderIndex(removed[i].id) < PreOrderIndex(removed[j].id)

\* clearPaths took the three nested paths, after a filterIntersecting that
\* took the two paths under the root.
C30_Witness ==
    /\ call.op = "clear"
    /\ call.recurse
    /\ Len(removed) = 3
    /\ SeqIds(removed) \subseteq NestedPathIds(pre)
    /\ call.prev[1] = "filter"
    /\ call.prev[3] = 2

\* C31: filterIntersecting with keepIntersecting = true and recurse = true
\* takes no node out of the tree, and the array it returns holds exactly the
\* paths, at any depth, whose geometry meets the line.
C31_KeepIntersectingReportsEveryHit ==
    (call.op = "filter" /\ call.keepIntersecting /\ call.recurse) =>
        /\ Strip(doc) = Strip(pre)
        /\ SeqIds(removed) =
               {n.id : n \in {m \in Range(Nodes(pre)) : IsPath(m) /\ Crosses(m, call.a, call.b)}}

\* C32: between the begin and the end of a gesture every extend adds exactly
\* one point at the end of the session's stroke and leaves the points before
\* it as they were, no other step touches the stroke, the stroke holds one
\* point per pointer event delivered, and the path of a pen gesture is made
\* of the accumulated points followed by the point of the end.
C32_StrokeIsAppendOnly ==
    [][/\ \A id \in DOMAIN liveStrokes \cap DOMAIN liveStrokes' :
              LET s == liveStrokes[id].stroke
                  t == liveStrokes'[id].stroke
              IN IF ev'.op = "move" /\ ev'.id = id
                 THEN /\ Len(t) = Len(s) + 1
                      /\ SubSeq(t, 1, Len(s)) = s
                      /\ t[Len(t)] \in Points
                 ELSE (ev'.op = "begin" /\ ev'.id = id) \/ t = s
       /\ Active(liveStrokes', 1) => Len(liveStrokes'[1].stroke) = phase'[1]
       /\ (ev'.op = "end" /\ ev'.kind = "pen") =>
              \E p \in Points :
                  Last(doc'.children).d =
                      generatePathData(Append(liveStrokes[ev'.id].stroke, p), fitCurveLoaded)
      ]_vars

\* An extend has added a third point to a stroke whose first two points differ.
C32_Witness ==
    /\ ev.op = "move"
    /\ Active(liveStrokes, 1)
    /\ Len(liveStrokes[1].stroke) = 3
    /\ liveStrokes[1].stroke[1] # liveStrokes[1].stroke[2]

\* C33: the stroke of every session in progress holds at least one point,
\* and every end of a pen gesture, whatever the number of extends before it,
\* adds one path to the document, made from a stroke of at least two points.
C33_EveryPenGestureAddsAPath ==
    [][/\ \A id \in DOMAIN liveStrokes' : Len(liveStrokes'[id].stroke) >= 1
       /\ (ev'.op = "end" /\ ev'.kind = "pen") =>
              /\ Len(liveStrokes[ev'.id].stroke) >= 1
              /\ NumPaths(doc') = NumPaths(doc) + 1
              /\ IsPath(Last(doc'.children))
              /\ Last(doc'.children).id = nextId
              /\ Len(Last(doc'.children).d) >= 2
              /\ nextId' = nextId + 1
              /\ err' = "none"
      ]_vars

\* A tap with the pen: the pointer went down and was lifted at the same
\* place with no extend in between, and the path of the tap is in the tree.
C33_Witness ==
    /\ ev.op = "end"
    /\ ev.kind = "pen"
    /\ Last(doc.children).id = nextId - 1
    /\ Len(Last(doc.children).d) = 2
    /\ Last(doc.children).d[1].args = Last(doc.children).d[2].args

\* C34: after an upload or a paste that showed an error, the document tree
\* is the one it was before the load was attempted.
C34_FailedLoadLeavesTheDocument ==
    (load.op \in {"upload", "paste"} /\ load.alert # "none") => doc = pre

\* C35: the root object of the renderer and of the document editor stays
\* the one object it was at start-up: a load gives it the children of the
\* loaded document, a pen gesture ended afterwards adds its path after those
\* children, and the end of an eraser gesture erases from the tree as it is
\* then along the segment to the point of the pointerup.
C35_GesturesWorkOnTheLoadedDocument ==
    [][/\ doc'.id = doc.id
       /\ doc'.id = doc0.id
       /\ (ev'.op \in {"upload", "paste"} /\ load'.parsed) =>
              doc'.children = deserializeDocument(load'.text, nextId).node.children
       /\ (ev'.op = "end" /\ ev'.kind = "pen") =>
              /\ Len(doc'.children) = Len(doc.children) + 1
              /\ SubSeq(doc'.children, 1, Len(doc.children)) = doc.children
              /\ IsPath(Last(doc'.children))
              /\ Last(doc'.children).id = nextId
       /\ (ev'.op = "end" /\ ev'.kind = "eraser") =>
              \E p \in Points :
                  LET r == processEraserStroke(doc, Last(liveStrokes[ev'.id].stroke), p)
                  IN /\ doc' = r.node
                     /\ removed' = r.removed
                     /\ SeqIds(removed') \subseteq PathIds(doc)
      ]_vars

\* After the upload of a document of one path onto another document, an
\* eraser gesture has erased that path and a pen gesture has then put its
\* path into the tree.
C35_Witness ==
    /\ load.op = "upload"
    /\ load.text = SmallText
    /\ load.alert = "none"
    /\ phase[1] = 4
    /\ ev.op = "end"
    /\ ev.kind = "pen"
    /\ doc.id = pre.id
    /\ NumPaths(pre) > 1
    /\ SeqIds(doc.children) = {nextId - 1}
    /\ IsPath(Last(doc.children))

\* C36: an extend or end of an eraser session takes out of the tree only
\* paths that were in it and leaves the session of every other pointer, its
\* points included, as it was; and the end of a pen session adds the path of
\* all its points, whatever an eraser did while it was drawn.
C36_EraserLeavesStrokesInProgress ==
    [][/\ (ev'.op \in {"move", "end"} /\ ev'.kind = "eraser") =>
              /\ \A other \in DOMAIN liveStrokes \ {ev'.id} :
                     /\ Active(liveStrokes', other)
                     /\ liveStrokes'[other] = liveStrokes[other]
              /\ SeqIds(removed') \subseteq PathIds(doc)
              /\ NodeIds(doc) \ NodeIds(doc') \subseteq PathIds(doc)
              /\ NodeIds(doc') \subseteq NodeIds(doc)
       /\ (ev'.op = "end" /\ ev'.kind = "pen") =>
              /\ Len(doc'.children) = Len(doc.children) + 1
              /\ Last(doc'.children).id = nextId
              /\ \E p \in Points :
                     Last(doc'.children).d =
                         generatePathData(Append(liveStrokes[ev'.id].stroke, p),
                                          fitCurveLoaded)
      ]_vars

\* The pen of pointer 1 has been lifted and its path of three points is in
\* the tree, after the eraser of pointer 2 moved, while the pen was down,
\* along a segment that meets that path, and erased a path of the document.
C36_Witness ==
    /\ ev.op = "end"
    /\ ev.kind = "pen"
    /\ ev.id = 1
    /\ phase[2] = 2
    /\ ~fitCurveLoaded
    /\ Len(Last(doc.children).d) = 3
    /\ Last(doc.children).id = nextId - 1
    /\ Crosses(Last(doc.children), liveStrokes[2].stroke[1], liveStrokes[2].stroke[2])
    /\ PathIds(doc0) \ PathIds(doc) # {}

====
